---- MODULE Spec2Model ----
(***************************************************************************)
(* Message-debounce and session-orchestration engine of the LINE webhook   *)
(* (src/line-webhook/main.go).                                             *)
(*                                                                         *)
(* A text is a sequence of tokens (strings); string concatenation is \o,   *)
(* strings.Contains(s, k) is "k is one of the tokens of s" and len(s) is   *)
(* the sum of the tokens' byte lengths.                                    *)
(***************************************************************************)
EXTENDS Integers, Sequences, FiniteSets, TLC

\* ------------------------------------------------------------------ bounds
Users == {"U1", "U2"}

\* number of webhook message events delivered in one behaviour
MaxMsgs == 3

\* seconds of wall-clock time one step of the model clock stands for
TickSeconds == 8

\* the debounce delay of time.AfterFunc, in seconds
QuietSeconds == 15

\* the quiet window D in clock steps (rounded up)
D == (QuietSeconds + TickSeconds - 1) \div TickSeconds

NoTimer == 0

\* ------------------------------------------------------------------- texts
RECURSIVE Flatten(_)
\* concatenation of a sequence of sequences
Flatten(ss) == IF ss = <<>> THEN <<>> ELSE Head(ss) \o Flatten(Tail(ss))

\* strings.Contains(s, k)
Contains(s, k) == \E i \in 1..Len(s) : s[i] = k

\* the text contents a user types
TextContents == {<<"q1">>}

\* the Thai prefix "customer sent a picture: " of main.go:196
ImagePrefix == "customer-sent-picture: "

ImageDataURL == "data:image/jpeg;base64,AAAA"

\* the Thai placeholder "received a picture from the customer (cannot be shown)" of main.go:193
ImagePlaceholder == "received-picture (cannot-be-shown)"

\* messageContent of an image event: the prefix and the data URL when the
\* download succeeds, the placeholder when it fails
ImageContent(ok) == IF ok THEN <<ImagePrefix, ImageDataURL>> ELSE <<ImagePlaceholder>>

\* strconv of the small numbers fmt.Sprintf("%d") prints
Itoa(n) == <<"0", "1", "2", "3", "4", "5", "6", "7", "8", "9">>[n + 1]

RECURSIVE JoinSpace(_)
\* fmt's %v of a []string without the brackets: the elements separated by " "
JoinSpace(cs) ==
    IF cs = <<>> THEN <<>>
    ELSE IF Len(cs) = 1 THEN cs[1]
    ELSE cs[1] \o <<" ">> \o JoinSpace(Tail(cs))

\* the contents of buffered messages
ContentsOf(msgs) == [i \in 1..Len(msgs) |-> msgs[i].content]

\* summary: one message verbatim, several as
\* fmt.Sprintf("<summary of> %d <messages from the customer>: %v", len(msgs), msgs)
Summary(msgs) ==
    IF Len(msgs) = 1 THEN msgs[1].content
    ELSE <<"summary-of ", Itoa(Len(msgs)), " messages-from-customer: ", "[">>
         \o JoinSpace(ContentsOf(msgs)) \o <<"]">>

\* ------------------------------------------------------------------- state
VARIABLES
    nextId,         \* number of messages buffered so far, plus one
    fetching,       \* per user, how many image downloads (getLineImageURL) are running
    userMsgBuffer,  \* userMsgBuffer: user -> buffered messages
    userMsgTimer,   \* userMsgTimer: user -> timer handle, NoTimer when absent
    timers,         \* the timers of time.AfterFunc that are pending or fired
    accepted,       \* history: per user, the messages in the order buffered
    since,          \* history: per user, clock steps since the last message was buffered (at most D + 1)
    within,         \* history: per user, every message came less than D after the one before
    apart,          \* history: per user, every message came more than D after the one before
    separate,       \* history: per user, every message was buffered when no timer of the user was left
    turns,          \* every call getAssistantResponse(userId, summary), in order, with its progress
    env,            \* which of CHATGPT_API_KEY and OPENAI_ASSISTANT_ID are set
    userThreadMap,  \* userThreadMap: user -> thread id, NoThread when absent
    userLastQAMap,  \* userLastQAMap: user -> last question and answer
    nextThread,     \* the remote side: per user, the number of the next new thread
    stored,         \* history: per user, the thread ids ever stored in userThreadMap
    lastReturned,   \* history: per user, the turn that returned last
    call,           \* one call of getAssistantResponse followed request by request
    channelToken,   \* LINE_CHANNEL_ACCESS_TOKEN is set
    polls,          \* history: what each status poll of the call saw and did
    lineReplies,    \* the texts posted to the LINE reply API for the call
    lock,           \* userThreadLock: the goroutine that holds it, NoHolder when free
    procs,          \* the goroutines of webhook handlers and timer callbacks
    races,          \* history: the maps that were read or written without the lock
    requests,       \* the POST /webhook requests: body, next event, response status
    posted          \* the message payloads posted to threads, in order

debVars == <<nextId, fetching, userMsgBuffer, userMsgTimer, timers, accepted,
             since, within, apart, separate>>

orchVars == <<env, userThreadMap, userLastQAMap, nextThread, stored,
              lastReturned>>

callVars == <<call, channelToken, polls, lineReplies>>

lockVars == <<lock, procs, races>>

\* the webhook requests
hookVars == <<requests, posted>>

vars == <<debVars, turns, orchVars, callVars, lockVars, hookVars>>

\* a buffered message: the event's reply token identifies it
Msg(id, c) == [id |-> id, content |-> c]

\* the timer and closure of time.AfterFunc(15*time.Second, func() {...}); the
\* reply token the closure captures serves as the handle
NewTimer(u, tok) == [id |-> tok, user |-> u, left |-> D, state |-> "pending"]

\* mutant of StopTimer: the handler forgets to stop the timer it replaces
StopTimerNoop(ts, h) == ts

\* timer.Stop(): a timer that has not fired is stopped, a fired one runs on
StopTimer(ts, h) == {t \in ts : ~(t.id = h /\ t.state = "pending")}

NoThread == 0

\* userThreadLock is free
NoHolder == 0

\* the zero value of a userLastQAMap entry; has is the map's "ok"
NoQA == [Question |-> <<>>, Answer |-> <<>>, has |-> FALSE]

\* no turn of the user has returned yet
NoPrev == [message |-> <<>>, err |-> FALSE, has |-> FALSE]

\* the call getAssistantResponse(userId, summary) of the timer callback, about
\* to run. History: contacted, a remote call was made; seen, the cache
\* entry the duplicate check met;
\* prev, the user's turn that returned last before the check, when no other
\* turn of the user was running then
NewTurn(u, msgs, tok) ==
    [user |-> u, msgs |-> msgs, message |-> Summary(msgs), replyToken |-> tok,
     pc |-> "check", threadId |-> NoThread, reply |-> <<>>, fromCache |-> FALSE,
     contacted |-> FALSE, seen |-> NoQA, prev |-> NoPrev]

\* the call getAssistantResponse(userId, message) that is followed request
\* by request, its thread known, about to post its message. i counts the
\* status polls made; creates, conflict and cancel are history: the run
\* creation requests made, the first one answered "already has an active
\* run", how the cancel request went. listed is the answer of the run
\* listing, todo its active runs not yet cancelled, swept the cancel requests
\* made for them (history, until the run creation request is sent).
\* j counts the status polls of the slot summary branch, slot is what that
\* branch finds, rest the messages the loop over the list has not looked at,
\* own whether the loop has not yet passed a message of the user, stale
\* whether the reply was taken from a message behind one (history)
NewCall ==
    [user |-> "U1", message |-> <<"q1">>, replyToken |-> 1, threadId |-> 1,
     pc |-> "send", i |-> 0, lastToolCallSignature |-> <<>>,
     submittedToolOutputs |-> FALSE, reply |-> <<>>,
     creates |-> 0, conflict |-> FALSE, cancel |-> "none",
     listed |-> <<>>, todo |-> <<>>, swept |-> <<>>,
     j |-> 0, slot |-> <<>>, rest |-> <<>>, own |-> TRUE, stale |-> FALSE]

Init ==
    /\ nextId = 1
    /\ fetching = [u \in Users |-> 0]
    /\ userMsgBuffer = [u \in Users |-> <<>>]
    /\ userMsgTimer = [u \in Users |-> NoTimer]
    /\ timers = {}
    /\ accepted = [u \in Users |-> <<>>]
    /\ since = [u \in Users |-> 0]
    /\ within = [u \in Users |-> TRUE]
    /\ apart = [u \in Users |-> TRUE]
    /\ separate = [u \in Users |-> TRUE]
    /\ turns = <<>>
    /\ env = [apiKey |-> TRUE, assistantId |-> TRUE]
    /\ userThreadMap = [u \in Users |-> NoThread]
    /\ userLastQAMap = [u \in Users |-> NoQA]
    /\ nextThread = [u \in Users |-> 1]
    /\ stored = [u \in Users |-> {}]
    /\ lastReturned = [u \in Users |-> NoPrev]
    /\ call = NewCall
    /\ channelToken = TRUE
    /\ polls = <<>>
    /\ lineReplies = <<>>
    /\ lock = NoHolder
    /\ procs = <<>>
    /\ races = {}
    /\ requests = <<>>
    /\ posted = <<>>

\* ------------------------------------------------------- the turn debouncer
\* the history the handler's critical section leaves behind
BufferHistory(u, m) ==
    /\ accepted' = [accepted EXCEPT ![u] = Append(@, m)]
    /\ since' = [since EXCEPT ![u] = 0]
    /\ within' = [within EXCEPT ![u] = @ /\ (accepted[u] = <<>> \/ since[u] < D)]
    /\ apart' = [apart EXCEPT ![u] = @ /\ (accepted[u] = <<>> \/ since[u] > D)]
    /\ separate' = [separate EXCEPT ![u] = @ /\ (\A t \in timers : t.user # u)]

\* mutant of BufferMessage: the new message is put in front of the buffer
BufferMessagePrepend(u, m) ==
    /\ userMsgBuffer' = [userMsgBuffer EXCEPT ![u] = <<m>> \o @]
    /\ timers' = (IF userMsgTimer[u] # NoTimer
                  THEN StopTimer(timers, userMsgTimer[u])
                  ELSE timers) \cup {NewTimer(u, m.id)}
    /\ userMsgTimer' = [userMsgTimer EXCEPT ![u] = m.id]
    /\ BufferHistory(u, m)

\* mutant of BufferMessage: a batching interval; a message that finds a timer
\* handle leaves that timer running and starts none
BufferMessageBatched(u, m) ==
    /\ userMsgBuffer' = [userMsgBuffer EXCEPT ![u] = Append(@, m)]
    /\ timers' = IF userMsgTimer[u] # NoTimer THEN timers
                 ELSE timers \cup {NewTimer(u, m.id)}
    /\ userMsgTimer' = IF userMsgTimer[u] # NoTimer THEN userMsgTimer
                       ELSE [userMsgTimer EXCEPT ![u] = m.id]
    /\ BufferHistory(u, m)

\* mutant of BufferMessage: a message that finds a timer handle stops that
\* timer and starts none
BufferMessageNoRestart(u, m) ==
    /\ userMsgBuffer' = [userMsgBuffer EXCEPT ![u] = Append(@, m)]
    /\ timers' = IF userMsgTimer[u] # NoTimer
                 THEN StopTimer(timers, userMsgTimer[u])
                 ELSE timers \cup {NewTimer(u, m.id)}
    /\ userMsgTimer' = IF userMsgTimer[u] # NoTimer
                       THEN [userMsgTimer EXCEPT ![u] = NoTimer]
                       ELSE [userMsgTimer EXCEPT ![u] = m.id]
    /\ BufferHistory(u, m)

\* the critical section of the webhook handler: append, stop the timer the map
\* holds, start a new timer and store its handle
BufferMessage(u, m) ==
    /\ userMsgBuffer' = [userMsgBuffer EXCEPT ![u] = Append(@, m)]
    /\ timers' = (IF userMsgTimer[u] # NoTimer
                  THEN StopTimer(timers, userMsgTimer[u])
                  ELSE timers) \cup {NewTimer(u, m.id)}
    /\ userMsgTimer' = [userMsgTimer EXCEPT ![u] = m.id]
    /\ BufferHistory(u, m)

\* the number of message events received so far
RECURSIVE SumOver(_, _)
SumOver(f, S) == IF S = {} THEN 0 ELSE LET x == CHOOSE y \in S : TRUE IN f[x] + SumOver(f, S \ {x})

Received == nextId - 1 + SumOver(fetching, Users)

\* a text message event: buffered as it is
TextMessage(u, c) ==
    /\ Received < MaxMsgs
    /\ BufferMessage(u, Msg(nextId, c))
    /\ nextId' = nextId + 1
    /\ UNCHANGED <<fetching, turns, orchVars, callVars, lockVars, hookVars>>

\* an image message event: the handler first downloads the image, outside the lock
ImageMessage(u) ==
    /\ Received < MaxMsgs
    /\ fetching' = [fetching EXCEPT ![u] = @ + 1]
    /\ UNCHANGED <<nextId, userMsgBuffer, userMsgTimer, timers, accepted, since, within,
                   apart, separate, turns, orchVars, callVars, lockVars, hookVars>>

\* the download returns (ok or not) and the handler buffers the content
ImageFetched(u, ok) ==
    /\ fetching[u] > 0
    /\ fetching' = [fetching EXCEPT ![u] = @ - 1]
    /\ BufferMessage(u, Msg(nextId, ImageContent(ok)))
    /\ nextId' = nextId + 1
    /\ UNCHANGED <<turns, orchVars, callVars, lockVars, hookVars>>

\* the runtime fires a timer whose delay has elapsed: its callback starts in
\* its own goroutine and waits for the lock
TimerFire(t) ==
    /\ t \in timers
    /\ t.state = "pending"
    /\ t.left = 0
    /\ timers' = (timers \ {t}) \cup {[t EXCEPT !.state = "fired"]}
    /\ UNCHANGED <<nextId, fetching, userMsgBuffer, userMsgTimer, accepted,
                   since, within, apart, separate, turns, orchVars, callVars, lockVars, hookVars>>

\* mutant of TimerCallback: the callback reads the buffer and does not clear it
TimerCallbackKeepsBuffer(t) ==
    LET u == t.user
        msgs == userMsgBuffer[u]
    IN  /\ t \in timers
        /\ t.state = "fired"
        /\ userMsgTimer' = [userMsgTimer EXCEPT ![u] = NoTimer]
        /\ timers' = timers \ {t}
        /\ turns' = IF Len(msgs) = 0 THEN turns
                    ELSE Append(turns, NewTurn(u, msgs, t.id))
        /\ UNCHANGED <<nextId, fetching, userMsgBuffer, accepted, since, within, apart,
                       separate, orchVars, callVars, lockVars, hookVars>>

\* mutant of TimerCallback: a turn is emitted for an empty buffer too
TimerCallbackEmitsEmpty(t) ==
    LET u == t.user
        msgs == userMsgBuffer[u]
    IN  /\ t \in timers
        /\ t.state = "fired"
        /\ userMsgBuffer' = [userMsgBuffer EXCEPT ![u] = <<>>]
        /\ userMsgTimer' = [userMsgTimer EXCEPT ![u] = NoTimer]
        /\ timers' = timers \ {t}
        /\ turns' = Append(turns, NewTurn(u, msgs, t.id))
        /\ UNCHANGED <<nextId, fetching, accepted, since, within, apart, separate, orchVars, callVars, lockVars, hookVars>>

\* the callback's critical section and what follows it: take and clear the
\* buffer, delete the user's timer handle, emit a turn when there are messages
TimerCallback(t) ==
    LET u == t.user
        msgs == userMsgBuffer[u]
    IN  /\ t \in timers
        /\ t.state = "fired"
        /\ userMsgBuffer' = [userMsgBuffer EXCEPT ![u] = <<>>]
        /\ userMsgTimer' = [userMsgTimer EXCEPT ![u] = NoTimer]
        /\ timers' = timers \ {t}
        /\ turns' = IF Len(msgs) = 0 THEN turns
                    ELSE Append(turns, NewTurn(u, msgs, t.id))
        /\ UNCHANGED <<nextId, fetching, accepted, since, within, apart, separate, orchVars, callVars, lockVars, hookVars>>

\* one clock step passes: every running delay gets one step shorter
Tick ==
    /\ timers' = {[t EXCEPT !.left = IF t.state = "pending" /\ @ > 0 THEN @ - 1 ELSE @] : t \in timers}
    /\ since' = [u \in Users |-> IF since[u] <= D THEN since[u] + 1 ELSE since[u]]
    /\ UNCHANGED <<nextId, fetching, userMsgBuffer, userMsgTimer, accepted, within,
                   apart, separate, turns, orchVars, callVars, lockVars, hookVars>>

Next ==
    \/ \E u \in Users, c \in TextContents : TextMessage(u, c)
    \/ \E u \in Users : ImageMessage(u)
    \/ \E u \in Users, ok \in BOOLEAN : ImageFetched(u, ok)
    \/ \E t \in timers : TimerFire(t)
    \/ \E t \in timers : TimerCallback(t)
    \/ Tick

Spec == Init /\ [][Next]_vars

\* the debouncer under fair scheduling: the clock advances, the runtime fires
\* a timer whose delay is over, and a callback waiting in Lock() gets the
\* lock (every critical section is finite and makes no blocking call)
SpecLive ==
    /\ Spec
    /\ WF_vars(Tick)
    /\ WF_vars(\E t \in timers : TimerFire(t))
    /\ WF_vars(\E t \in timers : TimerCallback(t))


\* ------------------------------------------------ texts of the orchestrator
\* stand-ins for the Thai keywords of isErrorResponse: "sorry, the system has a
\* problem", "an error occurred", "unable to", "found an error"
KwSorrySystem == "th:sorry-system-has-problem"

KwErrorOccurred == "th:an-error-occurred"

KwUnable == "th:unable-to"

KwFoundError == "th:found-an-error"

\* errorKeywords
ErrorKeywords ==
    {"Error ", "Failed to ", "not configured", "not set", "Error creating",
     "Error running", "Error sending", "Error getting", "Error calling",
     KwSorrySystem, KwErrorOccurred, KwUnable, KwFoundError}

\* the whitespace strings.TrimSpace cuts
IsSpace(tok) == tok \in {" ", "\t", "\n", "\r"}

RECURSIVE TrimLeft(_)
TrimLeft(s) == IF s # <<>> /\ IsSpace(Head(s)) THEN TrimLeft(Tail(s)) ELSE s

RECURSIVE TrimRight(_)
TrimRight(s) ==
    IF s # <<>> /\ IsSpace(s[Len(s)]) THEN TrimRight(SubSeq(s, 1, Len(s) - 1)) ELSE s

\* strings.TrimSpace
TrimSpace(s) == TrimRight(TrimLeft(s))

RECURSIVE ByteLen(_)
\* len(s): the bytes of the tokens
ByteLen(s) == IF s = <<>> THEN 0 ELSE Len(Head(s)) + ByteLen(Tail(s))

\* a reply shorter than this, trimmed, counts as an error
MinUsefulLen == 10

\* isErrorResponse
isErrorResponse(response) ==
    \/ \E k \in ErrorKeywords : Contains(response, k)
    \/ ByteLen(TrimSpace(response)) < MinUsefulLen

\* the fixed replies of getAssistantResponse
ApiKeyMissingText == <<KwSorrySystem, " temporarily, please try again or contact staff">>

ThreadErrorText == <<KwSorrySystem, " temporarily, please try again">>

ThreadFailedText == <<"Failed to ", "create thread.">>

SendErrorText == <<"Error sending", " message to thread.">>

AssistantIdMissingText == <<"OPENAI_ASSISTANT_ID ", "not set", ".">>

RunErrorText == <<"Error running", " assistant.">>

RunFailedText == <<"Failed to ", "start run.">>

PollErrorText == <<"Error ", "polling run status.">>

MessagesErrorText == <<"Error getting", " messages.">>

\* what getNCSPricing answers: a price for a service it knows, its
\* "no price found" text otherwise
PriceText == <<"Mattress 6ft disinfection: full price 2,390 baht">>

PriceNotFoundText == <<"Sorry, no price found; please contact staff">>

getNCSPricing(args) == IF Contains(args, "known") THEN PriceText ELSE PriceNotFoundText

\* strings.Index / strings.LastIndex of a one-token string, 0 when absent
Index(s, k) == IF Contains(s, k) THEN CHOOSE i \in 1..Len(s) : s[i] = k /\ \A j \in 1..(i - 1) : s[j] # k ELSE 0

LastIndex(s, k) == IF Contains(s, k) THEN CHOOSE i \in 1..Len(s) : s[i] = k /\ \A j \in (i + 1)..Len(s) : s[j] # k ELSE 0

\* extractAndProcessPricingJSON: the text from the first "{" to the last "}"
\* is parsed as the pricing arguments; "" when there is none or it does not parse
extractAndProcessPricingJSON(response) ==
    LET start == Index(response, "{")
        end == LastIndex(response, "}")
    IN  IF start = 0 \/ end = 0 \/ start >= end THEN <<>>
        ELSE LET jsonStr == SubSeq(response, start, end)
             IN  IF Contains(jsonStr, "not-json") THEN <<>> ELSE getNCSPricing(jsonStr)

\* ---------------------------------------------------- the run orchestrator
\* number of calls of getAssistantResponse in one behaviour
MaxTurns == 2

\* the buffered messages the calls are made for
TurnInputs == {<<Msg(1, <<"q1">>)>>, <<Msg(1, <<"q2">>)>>}

\* the replies the remote assistant writes
GoodReply == <<"We clean mattresses and sofas.">>

OlderReply == <<"Hello, how can I help you today?">>

ApologyReply == <<"Sorry, ", KwUnable, " answer that.">>

PaddedShortReply == <<" ", " ", " ", " ", "thanks", " ", " ", " ", " ", "\n">>

PricingJSONReply == <<"{", "service_type", "item_type", "known", "}">>

BrokenJSONReply == <<"{", "service_type", "item_type", "not-json", "}">>

SlotSummaryReply == <<"Free days this month: 3, 9 and 17.">>

\* one entry of the thread's message list: its role, the type and text of its
\* first content part (type "none": no content), and for a tool_calls part what
\* the slot lookup and summary branch comes back with (<<>>: nothing)
Entry(role, type, value, slot) == [role |-> role, type |-> type, value |-> value, slot |-> slot]

\* the message lists the remote side answers with, newest message first
MsgLists ==
    { <<>>,
      <<Entry("assistant", "text", GoodReply, <<>>)>>,
      <<Entry("assistant", "text", ApologyReply, <<>>)>>,
      <<Entry("assistant", "text", PaddedShortReply, <<>>)>>,
      <<Entry("assistant", "text", PricingJSONReply, <<>>)>>,
      <<Entry("user", "text", <<"q1">>, <<>>), Entry("assistant", "text", <<>>, <<>>),
        Entry("assistant", "text", OlderReply, <<>>)>>,
      <<Entry("assistant", "tool_calls", <<>>, SlotSummaryReply)>>,
      <<Entry("assistant", "tool_calls", <<>>, <<>>), Entry("assistant", "none", <<>>, <<>>)>> }

\* a duplicate check that does not compare the question
CacheHitAnyQuestion(qa, message) ==
    qa.has /\ qa.Answer # <<>> /\ ~isErrorResponse(qa.Answer)

\* the duplicate check: same question, an answer, and not an error answer
CacheHit(qa, message) ==
    qa.has /\ qa.Question = message /\ qa.Answer # <<>> /\ ~isErrorResponse(qa.Answer)

\* a store condition that lets error replies in
ShouldCacheNonEmpty(reply) == reply # <<>>

\* the store condition: only successful responses are cached
ShouldCache(reply) == reply # <<>> /\ ~isErrorResponse(reply)

\* what the loop over one message of the list decides: stop with a reply
\* (cache: it is stored first) or go on to the next message
Decide(e) ==
    IF e.role = "assistant" /\ e.type # "none"
    THEN IF e.type = "text" /\ Contains(e.value, "service_type") /\ Contains(e.value, "item_type")
              /\ extractAndProcessPricingJSON(e.value) # <<>>
         THEN [stop |-> TRUE, reply |-> extractAndProcessPricingJSON(e.value), cache |-> FALSE]
         ELSE IF e.type = "text" /\ ShouldCache(e.value)
         THEN [stop |-> TRUE, reply |-> e.value, cache |-> TRUE]
         ELSE IF e.type = "text" /\ e.value # <<>>
         THEN [stop |-> TRUE, reply |-> e.value, cache |-> FALSE]
         ELSE IF e.type = "tool_calls" /\ e.slot # <<>>
         THEN [stop |-> TRUE, reply |-> e.slot, cache |-> FALSE]
         ELSE [stop |-> FALSE, reply |-> <<>>, cache |-> FALSE]
    ELSE [stop |-> FALSE, reply |-> <<>>, cache |-> FALSE]

RECURSIVE ExtractReply(_)
\* the loop over msgList.Data: the first message that decides; "" when none does
ExtractReply(list) ==
    IF list = <<>> THEN [stop |-> TRUE, reply |-> <<>>, cache |-> FALSE]
    ELSE IF Decide(Head(list)).stop THEN Decide(Head(list))
    ELSE ExtractReply(Tail(list))

\* a call that has made its duplicate check and has not returned
Running(w) == w.pc \in {"lookup", "create", "submit", "getmsgs"}

\* the call goes on
Goes(w, pc) == [w EXCEPT !.pc = pc, !.contacted = TRUE]

\* the call returns text, after one more remote call
Returns(w, text) == [w EXCEPT !.pc = "ret", !.reply = text, !.contacted = TRUE]

\* a call has returned and its reply is on its way to LINE; the callback
\* does nothing else, so the steps of the other calls are taken after it
Replying == \E j \in 1..Len(turns) : turns[j].pc = "ret"

\* call i of getAssistantResponse takes the step that leaves it as w2
Step(i, w2) ==
    /\ ~Replying
    /\ turns' = [turns EXCEPT ![i] = w2]
    /\ lastReturned' =
         IF w2.pc = "ret"
         THEN [lastReturned EXCEPT ![w2.user] =
                  [message |-> w2.message, err |-> isErrorResponse(w2.reply), has |-> TRUE]]
         ELSE lastReturned

\* a timer callback calls getAssistantResponse for the messages it took
StartTurn(u, msgs) ==
    /\ Len(turns) < MaxTurns
    /\ ~Replying
    /\ turns' = Append(turns, NewTurn(u, msgs, Len(turns) + 1))
    /\ UNCHANGED <<lockVars, hookVars, debVars, orchVars, callVars>>

\* the duplicate check under the lock, then the API key check
CheckCache(i) ==
    LET w == turns[i]
        qa == userLastQAMap[w.user]
        alone == \A j \in 1..Len(turns) : turns[j].user = w.user => ~Running(turns[j])
        met == [w EXCEPT !.seen = qa,
                         !.prev = IF alone THEN lastReturned[w.user] ELSE NoPrev]
    IN  /\ w.pc = "check"
        /\ Step(i, IF CacheHit(qa, w.message)
                   THEN [met EXCEPT !.pc = "ret", !.reply = qa.Answer, !.fromCache = TRUE]
                   ELSE IF ~env.apiKey
                   THEN [met EXCEPT !.pc = "ret", !.reply = ApiKeyMissingText]
                   ELSE [met EXCEPT !.pc = "lookup"])
        /\ UNCHANGED <<lockVars, hookVars, debVars, callVars, env, userThreadMap, userLastQAMap, nextThread, stored>>

\* the thread lookup under the lock
LookupThread(i) ==
    LET w == turns[i]
    IN  /\ w.pc = "lookup"
        /\ Step(i, IF userThreadMap[w.user] # NoThread
                   THEN [w EXCEPT !.pc = "submit", !.threadId = userThreadMap[w.user],
                                  !.seen = NoQA, !.prev = NoPrev]
                   ELSE [w EXCEPT !.pc = "create", !.seen = NoQA, !.prev = NoPrev])
        /\ UNCHANGED <<lockVars, hookVars, debVars, callVars, env, userThreadMap, userLastQAMap, nextThread, stored>>

\* mutant of CreateThread: a failed creation leaves an entry in the map
CreateThreadStoresFailure(i, outcome) ==
    LET w == turns[i]
    IN  /\ w.pc = "create"
        /\ Step(i, IF outcome = "error" THEN Returns(w, ThreadErrorText)
                   ELSE IF outcome = "empty" THEN Returns(w, ThreadFailedText)
                   ELSE [Goes(w, "submit") EXCEPT !.threadId = nextThread[w.user]])
        /\ userThreadMap' = [userThreadMap EXCEPT ![w.user] = nextThread[w.user]]
        /\ nextThread' = [nextThread EXCEPT ![w.user] = @ + 1]
        /\ stored' = [stored EXCEPT ![w.user] = @ \cup {nextThread[w.user]}]
        /\ UNCHANGED <<lockVars, hookVars, debVars, callVars, env, userLastQAMap>>

\* POST /v1/threads returns: an error, no id, or a fresh id, which is stored
\* under the lock
CreateThread(i, outcome) ==
    LET w == turns[i]
    IN  /\ w.pc = "create"
        /\ Step(i, IF outcome = "error" THEN Returns(w, ThreadErrorText)
                   ELSE IF outcome = "empty" THEN Returns(w, ThreadFailedText)
                   ELSE [Goes(w, "submit") EXCEPT !.threadId = nextThread[w.user]])
        /\ IF outcome = "id"
           THEN /\ userThreadMap' = [userThreadMap EXCEPT ![w.user] = nextThread[w.user]]
                /\ nextThread' = [nextThread EXCEPT ![w.user] = @ + 1]
                /\ stored' = [stored EXCEPT ![w.user] = @ \cup {nextThread[w.user]}]
           ELSE UNCHANGED <<userThreadMap, nextThread, stored>>
        /\ UNCHANGED <<lockVars, hookVars, debVars, callVars, env, userLastQAMap>>

\* lines 401-847, which touch nothing the calls share: the turn's message is
\* posted to the thread, the assistant id is checked, active runs are
\* cancelled, the run is created (one retry) and polled. outcome names the
\* first request that fails, "done" when the polling loop ends
RunOutcomes == {"send", "run", "norun", "poll", "done"}

\* mutant of RunAssistant: a run that does not start gives the session up
RunAssistantDropsSession(i, outcome) ==
    LET w == turns[i]
        failed == env.assistantId /\ outcome \in {"run", "norun"}
    IN  /\ w.pc = "submit"
        /\ Step(i, IF outcome = "send" THEN Returns(w, SendErrorText)
                   ELSE IF ~env.assistantId THEN Returns(w, AssistantIdMissingText)
                   ELSE IF outcome = "run" THEN Returns(w, RunErrorText)
                   ELSE IF outcome = "norun" THEN Returns(w, RunFailedText)
                   ELSE IF outcome = "poll" THEN Returns(w, PollErrorText)
                   ELSE Goes(w, "getmsgs"))
        /\ userThreadMap' = IF failed THEN [userThreadMap EXCEPT ![w.user] = NoThread]
                            ELSE userThreadMap
        /\ UNCHANGED <<lockVars, hookVars, debVars, callVars, env, userLastQAMap, nextThread, stored>>

RunAssistant(i, outcome) ==
    LET w == turns[i]
    IN  /\ w.pc = "submit"
        /\ Step(i, IF outcome = "send" THEN Returns(w, SendErrorText)
                   ELSE IF ~env.assistantId THEN Returns(w, AssistantIdMissingText)
                   ELSE IF outcome = "run" THEN Returns(w, RunErrorText)
                   ELSE IF outcome = "norun" THEN Returns(w, RunFailedText)
                   ELSE IF outcome = "poll" THEN Returns(w, PollErrorText)
                   ELSE Goes(w, "getmsgs"))
        /\ UNCHANGED <<lockVars, hookVars, debVars, callVars, env, userThreadMap, userLastQAMap, nextThread, stored>>

\* the thread's messages are read and the reply extracted; a successful text
\* reply is stored in userLastQAMap under the lock before it is returned
GetMessages(i, ok, list) ==
    LET w == turns[i]
        r == ExtractReply(list)
    IN  /\ w.pc = "getmsgs"
        /\ Step(i, IF ~ok THEN Returns(w, MessagesErrorText)
                   ELSE Returns(w, r.reply))
        /\ userLastQAMap' =
             IF ok /\ r.cache
             THEN [userLastQAMap EXCEPT ![w.user] =
                      [Question |-> w.message, Answer |-> r.reply, has |-> TRUE]]
             ELSE userLastQAMap
        /\ UNCHANGED <<lockVars, hookVars, debVars, callVars, env, userThreadMap, nextThread, stored>>

\* replyToLine(replyToken, responseText): the callback is over
ReplyToLine(i) ==
    LET w == turns[i]
    IN  /\ w.pc = "ret"
        /\ turns' = [turns EXCEPT ![i] =
                        [NewTurn(w.user, w.msgs, w.replyToken) EXCEPT !.pc = "end"]]
        /\ UNCHANGED <<lockVars, hookVars, debVars, orchVars, callVars>>

InitTurn ==
    /\ nextId = 1
    /\ fetching = [u \in Users |-> 0]
    /\ userMsgBuffer = [u \in Users |-> <<>>]
    /\ userMsgTimer = [u \in Users |-> NoTimer]
    /\ timers = {}
    /\ accepted = [u \in Users |-> <<>>]
    /\ since = [u \in Users |-> 0]
    /\ within = [u \in Users |-> TRUE]
    /\ apart = [u \in Users |-> TRUE]
    /\ separate = [u \in Users |-> TRUE]
    /\ turns = <<>>
    /\ env \in [apiKey : BOOLEAN, assistantId : BOOLEAN]
    /\ userThreadMap = [u \in Users |-> NoThread]
    /\ userLastQAMap = [u \in Users |-> NoQA]
    /\ nextThread = [u \in Users |-> 1]
    /\ stored = [u \in Users |-> {}]
    /\ lastReturned = [u \in Users |-> NoPrev]
    /\ call = NewCall
    /\ channelToken = TRUE
    /\ polls = <<>>
    /\ lineReplies = <<>>
    /\ lock = NoHolder
    /\ procs = <<>>
    /\ races = {}
    /\ requests = <<>>
    /\ posted = <<>>

NextTurn ==
    \/ \E u \in Users, msgs \in TurnInputs : StartTurn(u, msgs)
    \/ \E i \in 1..Len(turns) : CheckCache(i)
    \/ \E i \in 1..Len(turns) : LookupThread(i)
    \/ \E i \in 1..Len(turns), outcome \in {"error", "empty", "id"} : CreateThread(i, outcome)
    \/ \E i \in 1..Len(turns), outcome \in RunOutcomes : RunAssistant(i, outcome)
    \/ \E i \in 1..Len(turns), ok \in BOOLEAN, list \in MsgLists : GetMessages(i, ok, list)
    \/ \E i \in 1..Len(turns) : ReplyToLine(i)

\* the calls of getAssistantResponse, for every choice of the turns' texts
SpecTurn == InitTurn /\ [][NextTurn]_vars

\* the state a first, answered turn of U1 leaves behind: the thread it
\* created, and its question "q1" with the assistant's reply in the cache
InitCache ==
    /\ nextId = 1
    /\ fetching = [u \in Users |-> 0]
    /\ userMsgBuffer = [u \in Users |-> <<>>]
    /\ userMsgTimer = [u \in Users |-> NoTimer]
    /\ timers = {}
    /\ accepted = [u \in Users |-> <<>>]
    /\ since = [u \in Users |-> 0]
    /\ within = [u \in Users |-> TRUE]
    /\ apart = [u \in Users |-> TRUE]
    /\ separate = [u \in Users |-> TRUE]
    /\ turns = <<>>
    /\ env = [apiKey |-> TRUE, assistantId |-> TRUE]
    /\ userThreadMap = [u \in Users |-> IF u = "U1" THEN 1 ELSE NoThread]
    /\ userLastQAMap = [u \in Users |->
                           IF u = "U1"
                           THEN [Question |-> Summary(<<Msg(1, <<"q1">>)>>),
                                 Answer |-> GoodReply, has |-> TRUE]
                           ELSE NoQA]
    /\ nextThread = [u \in Users |-> IF u = "U1" THEN 2 ELSE 1]
    /\ stored = [u \in Users |-> IF u = "U1" THEN {1} ELSE {}]
    /\ lastReturned = [u \in Users |->
                          IF u = "U1"
                          THEN [message |-> Summary(<<Msg(1, <<"q1">>)>>),
                                err |-> FALSE, has |-> TRUE]
                          ELSE NoPrev]
    /\ call = NewCall
    /\ channelToken = TRUE
    /\ polls = <<>>
    /\ lineReplies = <<>>
    /\ lock = NoHolder
    /\ procs = <<>>
    /\ races = {}
    /\ requests = <<>>
    /\ posted = <<>>

\* the calls of getAssistantResponse that follow a cached answer
SpecCache == InitCache /\ [][NextTurn]_vars

\* ------------------------------------------------- claims on the debouncer
\* the turns emitted for a user, in the order emitted
TurnsOf(u) == SelectSeq(turns, LAMBDA t : t.user = u)

\* the messages of the turns emitted for a user, one after the other
EmittedMsgs(u) == Flatten([i \in 1..Len(TurnsOf(u)) |-> TurnsOf(u)[i].msgs])

\* the timers of a user that are pending: created, not fired, not stopped
PendingTimers(u) == {t \in timers : t.user = u /\ t.state = "pending"}

\* no timer of the user is pending and no callback of the user is waiting
Quiet(u) == \A t \in timers : t.user # u

C3_Original ==
    \A u \in Users :
        (Len(accepted[u]) = 2 /\ apart[u]) =>
            /\ \A i \in 1..Len(TurnsOf(u)) : TurnsOf(u)[i].msgs = <<accepted[u][i]>>
            /\ Quiet(u) => Len(TurnsOf(u)) = 2

\* C3 amended: a user's two messages, the second buffered after the callback
\* of the first one's timer has taken the buffer, end in two turns: the first
\* holds only the first message, the second only the second.
C3_TwoTurnsAfterFlush ==
    \A u \in Users :
        (Len(accepted[u]) = 2 /\ separate[u]) =>
            /\ Len(TurnsOf(u)) >= 1
            /\ \A i \in 1..Len(TurnsOf(u)) : TurnsOf(u)[i].msgs = <<accepted[u][i]>>
            /\ Quiet(u) => Len(TurnsOf(u)) = 2

\* C3 witness: two messages more than D apart, flushed as two turns
C3_Witness ==
    \E u \in Users : /\ Len(accepted[u]) = 2
                     /\ separate[u]
                     /\ apart[u]
                     /\ Len(TurnsOf(u)) = 2

\* C4: every user has at most one pending timer.
C4_OnePendingTimer == \A u \in Users : Cardinality(PendingTimers(u)) <= 1

\* ---------------------------------------------- claims on the orchestrator
\* the duplicate check of call w has just been made: the call is at the
\* thread lookup, or has returned without a remote call
Checked(w) == w.pc = "lookup" \/ (w.pc = "ret" /\ ~w.contacted)

\* the cache entry the duplicate check of w met answers w's question
Duplicate(w) ==
    /\ w.seen.has
    /\ w.seen.Question = w.message
    /\ w.seen.Answer # <<>>
    /\ ~isErrorResponse(w.seen.Answer)

\* C5: a call returns from the cache exactly when the entry its duplicate
\* check met holds the call's text as question and an answer that is not
\* empty and not an error for the classifier; it then returns that answer
\* and has made no remote call; a call that made a remote call never
\* returns from the cache.
C5_CacheHitExactly ==
    \A i \in 1..Len(turns) :
        /\ Checked(turns[i]) => (turns[i].fromCache <=> Duplicate(turns[i]))
        /\ turns[i].fromCache =>
              /\ turns[i].pc = "ret"
              /\ turns[i].reply = turns[i].seen.Answer
              /\ ~turns[i].contacted

\* C5 witness: a call has returned the cached answer of its question
C5_Witness ==
    \E i \in 1..Len(turns) : /\ turns[i].pc = "ret"
                              /\ turns[i].fromCache
                              /\ Duplicate(turns[i])

\* C6: when the turn of a user that returned last before a call's duplicate
\* check had the same text, and no other turn of the user was running, the
\* call returns from the cache if and only if that turn's answer was not
\* an error for the classifier.
C6_SecondAskCachedIffFirstOk ==
    \A i \in 1..Len(turns) :
        (Checked(turns[i]) /\ turns[i].prev.has /\ turns[i].prev.message = turns[i].message)
            => (turns[i].fromCache <=> ~turns[i].prev.err)

\* the entry of the user is an answer that is not empty and not an error
GoodEntry(qa) == qa.has => (qa.Answer # <<>> /\ ~isErrorResponse(qa.Answer))

\* call i returns in this step
ReturnsNow(i) == turns[i].pc # "ret" /\ turns'[i].pc = "ret"

\* C7: every cache entry holds an answer that is not empty and not an error;
\* an entry changes only in a step in which a call of that user returns a
\* non-error reply, to that reply; a call that returns an error reply
\* leaves the entry of its user as it was.
C7_CacheHoldsGoodAnswers ==
    /\ [](\A u \in Users : GoodEntry(userLastQAMap[u]))
    /\ [][\A u \in Users :
            /\ userLastQAMap'[u] # userLastQAMap[u] =>
                  \E i \in 1..Len(turns) :
                      /\ ReturnsNow(i)
                      /\ turns[i].user = u
                      /\ ~isErrorResponse(turns'[i].reply)
                      /\ userLastQAMap'[u].Answer = turns'[i].reply
            /\ \A i \in 1..Len(turns) :
                  (ReturnsNow(i) /\ turns[i].user = u /\ isErrorResponse(turns'[i].reply))
                      => userLastQAMap'[u] = userLastQAMap[u]]_vars

\* C7 witness: a user has a cache entry and a later call of the user has
\* come back from the remote side with an error reply
C7_Witness ==
    \E i \in 1..Len(turns) :
        /\ turns[i].pc = "ret"
        /\ turns[i].contacted
        /\ turns[i].reply # <<>>
        /\ isErrorResponse(turns[i].reply)
        /\ userLastQAMap[turns[i].user].has

\* C8: a call that made a remote call and returns a reply that is not empty
\* and not an error has stored that reply in the cache under its text.
C8_GoodReplyCached ==
    \A i \in 1..Len(turns) :
        (/\ turns[i].pc = "ret"
         /\ turns[i].contacted
         /\ turns[i].reply # <<>>
         /\ ~isErrorResponse(turns[i].reply))
            => userLastQAMap[turns[i].user] =
                   [Question |-> turns[i].message, Answer |-> turns[i].reply, has |-> TRUE]

\* C9: a thread id stored for a user is never replaced or removed, and a
\* call that looks the thread up once an id is stored uses the stored id.
C9_StableSessions ==
    /\ [][\A u \in Users :
            userThreadMap[u] # NoThread => userThreadMap'[u] = userThreadMap[u]]_vars
    /\ [](\A i \in 1..Len(turns) :
            turns[i].pc \in {"submit", "getmsgs"} => turns[i].threadId = userThreadMap[turns[i].user])

\* C10: over any interleaving of the turns of a user, at most one thread is
\* created for the user and one thread id is ever stored for them.
C10_OneSessionPerUser ==
    \A u \in Users : nextThread[u] <= 2 /\ Cardinality(stored[u]) <= 1

\* C11: a call whose thread creation fails (request error or no id) returns
\* a failure reply and leaves userThreadMap as it was; a call that finds no
\* entry for its user at the lookup goes on to create a thread.
C11_FailedCreateStoresNothing ==
    /\ [][\A i \in 1..Len(turns) :
            (turns[i].pc = "create" /\ turns'[i].pc = "ret") =>
                /\ userThreadMap' = userThreadMap
                /\ turns'[i].reply \in {ThreadErrorText, ThreadFailedText}
                /\ isErrorResponse(turns'[i].reply)]_vars
    /\ [][\A i \in 1..Len(turns) :
            (/\ turns[i].pc = "lookup"
             /\ turns'[i].pc # "lookup"
             /\ userThreadMap[turns[i].user] = NoThread) => turns'[i].pc = "create"]_vars

\* C11 witness: the first turn of a user failed at the thread creation, no
\* thread was ever stored for the user, and the user's next turn is creating
\* a thread again
C11_Witness ==
    \E i, j \in 1..Len(turns) :
        /\ turns[i].user = turns[j].user
        /\ turns[i].pc = "end"
        /\ turns[j].pc = "create"
        /\ lastReturned[turns[i].user].has
        /\ lastReturned[turns[i].user].err
        /\ userThreadMap[turns[i].user] = NoThread
        /\ nextThread[turns[i].user] = 1

\* ------------------------------------- one call, request by request
\* the number of status polls of one call (60 in the source), scaled down
PollBudget == 4

\* the source's number of status polls
SourcePollBudget == 60

\* the names the poll loop has a handler for
ToolNames ==
    {"get_available_slots_with_months", "get_ncs_pricing", "get_action_step_summary",
     "get_image_analysis_guidance", "get_workflow_step_instruction",
     "get_current_workflow_step"}

\* one requested tool call of required_action.submit_tool_outputs.tool_calls
ToolCall(id, name, args) == [id |-> id, name |-> name, args |-> args]

\* the name of a handler inside its "Error parsing ... arguments: " text
ArgLabel(name) ==
    CASE name = "get_ncs_pricing" -> "pricing"
      [] name = "get_action_step_summary" -> "step summary"
      [] name = "get_image_analysis_guidance" -> "image guidance"
      [] name = "get_workflow_step_instruction" -> "workflow step"
      [] OTHER -> "current step"

\* the output a handler adds when json.Unmarshal rejects the arguments
ParseErrorText(name) == <<"Error parsing ", ArgLabel(name), " arguments: ", "invalid character">>

\* the output for a slot lookup whose request to the sheet fails
SheetErrorText == <<"Error calling", " Google Apps Script.">>

\* the Thai output "month not found" of a slot lookup without thai_month_year
MonthNotFoundText == <<"th:month-not-found">>

\* what the handler of a tool call comes back with; gsOk: the request of the
\* slot lookup to the sheet is answered
ToolOutput(c, gsOk) ==
    IF c.name = "get_available_slots_with_months"
    THEN IF Contains(c.args, "thai_month_year")
         THEN IF gsOk THEN <<"slots: 3, 9, 17">> ELSE SheetErrorText
         ELSE MonthNotFoundText
    ELSE IF Contains(c.args, "not-json") THEN ParseErrorText(c.name)
    ELSE IF c.name = "get_ncs_pricing" THEN getNCSPricing(c.args)
    ELSE <<"result of ", c.name>>

RECURSIVE DispatchStopsAtError(_, _)
\* mutant of Dispatch: arguments that do not parse end the loop over the calls
DispatchStopsAtError(calls, gsOk) ==
    IF calls = <<>> THEN <<>>
    ELSE (IF Head(calls).name \in ToolNames
          THEN <<[tool_call_id |-> Head(calls).id, output |-> ToolOutput(Head(calls), gsOk)]>>
          ELSE <<>>)
         \o (IF Contains(Head(calls).args, "not-json") THEN <<>>
             ELSE DispatchStopsAtError(Tail(calls), gsOk))

RECURSIVE Dispatch(_, _)
\* aggregatedOutputs: one output for every call whose name has a handler, in
\* the order of the calls; a call with another name adds nothing
Dispatch(calls, gsOk) ==
    IF calls = <<>> THEN <<>>
    ELSE (IF Head(calls).name \in ToolNames
          THEN <<[tool_call_id |-> Head(calls).id, output |-> ToolOutput(Head(calls), gsOk)]>>
          ELSE <<>>) \o Dispatch(Tail(calls), gsOk)

RECURSIVE JoinComma(_)
\* strings.Join(ids, ",")
JoinComma(ids) ==
    IF ids = <<>> THEN <<>>
    ELSE IF Len(ids) = 1 THEN <<ids[1]>>
    ELSE <<ids[1], ",">> \o JoinComma(Tail(ids))

\* the ids of tool calls, in order
IdsOf(calls) == [k \in 1..Len(calls) |-> calls[k].id]

\* currentSignature
Signature(calls) == JoinComma(IdsOf(calls))

\* the tool calls the remote side asks for
CallLists ==
    { <<ToolCall("call_1", "get_ncs_pricing", <<"{", "service_type", "item_type", "known", "}">>)>>,
      <<ToolCall("call_1", "get_ncs_pricing", <<"{", "service_type", "item_type", "known", "}">>),
        ToolCall("call_2", "lookup_order", <<"{", "}">>)>>,
      <<ToolCall("call_2", "lookup_order", <<"{", "}">>)>>,
      <<ToolCall("call_3", "get_ncs_pricing", <<"{", "not-json">>),
        ToolCall("call_4", "get_available_slots_with_months", <<"{", "thai_month_year", "}">>)>> }

\* a run of the thread's run list
Run(id, status) == [id |-> id, status |-> status]

\* the run lists the remote side answers the listing with
RunLists ==
    { <<>>,
      <<Run("run_a", "in_progress")>>,
      <<Run("run_a", "completed"), Run("run_b", "requires_action")>>,
      <<Run("run_a", "in_progress"), Run("run_b", "requires_action")>> }

\* the runs the loop over the listing sends a cancel request for
ActiveRun(r) == r.status = "in_progress" \/ r.status = "requires_action"

\* a batch holds a slot lookup that goes to the sheet
ReachesSheet(calls) ==
    \E k \in 1..Len(calls) :
        calls[k].name = "get_available_slots_with_months" /\ Contains(calls[k].args, "thai_month_year")

\* what a status poll decodes: the run's status and, while the run requires
\* action, the tool calls asked for
StatusResponses ==
    { [status |-> "in_progress", calls |-> <<>>],
      [status |-> "completed", calls |-> <<>>] }
    \cup { [status |-> "requires_action", calls |-> cs] : cs \in CallLists }

\* mutant of AlreadySubmitted: the loop has no duplicate guard
AlreadySubmittedNever(sig, c) == FALSE

\* mutant of ResetGuard: the flag stays once it is set
ResetGuardNever(status, flag) == flag

\* submittedToolOutputs after a poll that ran to the end of the loop body:
\* reset when the run has moved past requires_action
ResetGuard(status, flag) == IF status # "requires_action" THEN FALSE ELSE flag

\* the duplicate guard of the poll loop
AlreadySubmitted(sig, c) == sig = c.lastToolCallSignature /\ c.submittedToolOutputs

\* mutant of LoopEnds: a completed run does not end the loop
LoopEndsOnBudget(continues, status, n) == n = PollBudget

\* mutant of LoopEnds: only a completed run ends the loop
LoopEndsOnCompleted(continues, status, n) == ~continues /\ status = "completed"

\* the for loop is left after poll n: by the break on "completed", which a
\* continue skips, or because the polls are used up
LoopEnds(continues, status, n) == n = PollBudget \/ (~continues /\ status = "completed")

\* the call goes to pc
CallGoes(pc) ==
    /\ call' = [call EXCEPT !.pc = pc]
    /\ UNCHANGED <<channelToken, polls, lineReplies>>

\* the call returns text
CallReturns(text) ==
    /\ call' = [call EXCEPT !.pc = "ret", !.reply = text]
    /\ UNCHANGED <<channelToken, polls, lineReplies>>

\* the message is posted to the thread, then the assistant id is checked
CallSend(ok) ==
    /\ call.pc = "send"
    /\ IF ~ok THEN CallReturns(SendErrorText)
       ELSE IF ~env.assistantId THEN CallReturns(AssistantIdMissingText)
       ELSE CallGoes("list")
    /\ UNCHANGED <<lockVars, hookVars, debVars, turns, orchVars>>

\* the listing of the thread's runs: when it is answered, the active runs
\* of the list are cancelled one after the other; when the request fails the
\* call goes on to the run creation
CallListRuns(ok, runs) ==
    LET active == SelectSeq(runs, ActiveRun)
    IN  /\ call.pc = "list"
        /\ call' = IF ok
                   THEN [call EXCEPT !.listed = runs, !.todo = active,
                                     !.pc = IF active = <<>> THEN "run" ELSE "sweep"]
                   ELSE [call EXCEPT !.pc = "run"]
        /\ UNCHANGED <<lockVars, hookVars, debVars, turns, orchVars, channelToken, polls, lineReplies>>

\* mutant of CallSweep: a cancel request that fails ends the loop over the list
CallSweepStopsOnFailure(ok) ==
    /\ call.pc = "sweep"
    /\ call' = [call EXCEPT !.swept = Append(@, [id |-> Head(call.todo).id, ok |-> ok]),
                            !.todo = IF ok THEN Tail(@) ELSE <<>>,
                            !.pc = IF ok /\ Tail(call.todo) # <<>> THEN "sweep" ELSE "run"]
    /\ UNCHANGED <<lockVars, hookVars, debVars, turns, orchVars, channelToken, polls, lineReplies>>

\* the cancel request for the next active run of the list; answered or not,
\* the loop goes on
CallSweep(ok) ==
    /\ call.pc = "sweep"
    /\ call' = [call EXCEPT !.swept = Append(@, [id |-> Head(call.todo).id, ok |-> ok]),
                            !.todo = Tail(@),
                            !.pc = IF Tail(call.todo) # <<>> THEN "sweep" ELSE "run"]
    /\ UNCHANGED <<lockVars, hookVars, debVars, turns, orchVars, channelToken, polls, lineReplies>>

\* the run creation request: the request fails, a run id comes back, the
\* answer is the error "already has an active run run_...", or another
\* answer without an id
CallCreateRun(outcome) ==
    LET sent == [call EXCEPT !.creates = @ + 1, !.listed = <<>>, !.swept = <<>>]
    IN  /\ call.pc = "run"
        /\ call' = IF outcome = "error"
                   THEN [sent EXCEPT !.pc = "ret", !.reply = RunErrorText]
                   ELSE IF outcome = "id"
                   THEN [sent EXCEPT !.pc = "poll"]
                   ELSE IF outcome = "active"
                   THEN [sent EXCEPT !.pc = "cancel", !.conflict = TRUE]
                   ELSE [sent EXCEPT !.pc = "ret", !.reply = RunFailedText]
        /\ UNCHANGED <<lockVars, hookVars, debVars, turns, orchVars, channelToken, polls, lineReplies>>

\* the cancel request for the run named in the error: only when it is
\* answered does the call sleep and retry
CallCancelRun(ok) ==
    /\ call.pc = "cancel"
    /\ call' = IF ok
               THEN [call EXCEPT !.cancel = "answered", !.pc = "retry"]
               ELSE [call EXCEPT !.cancel = "failed", !.pc = "ret", !.reply = RunFailedText]
    /\ UNCHANGED <<lockVars, hookVars, debVars, turns, orchVars, channelToken, polls, lineReplies>>

\* mutant of CallRetryRun: a failed retry is retried
CallRetryRunAgain(outcome) ==
    /\ call.pc = "retry"
    /\ call' = IF outcome = "id"
               THEN [call EXCEPT !.creates = @ + 1, !.pc = "poll"]
               ELSE [call EXCEPT !.creates = @ + 1]
    /\ UNCHANGED <<lockVars, hookVars, debVars, turns, orchVars, channelToken, polls, lineReplies>>

\* the one retry of the run creation
CallRetryRun(outcome) ==
    /\ call.pc = "retry"
    /\ call' = IF outcome = "id"
               THEN [call EXCEPT !.creates = @ + 1, !.pc = "poll"]
               ELSE [call EXCEPT !.creates = @ + 1, !.pc = "ret", !.reply = RunFailedText]
    /\ UNCHANGED <<lockVars, hookVars, debVars, turns, orchVars, channelToken, polls, lineReplies>>

\* a status request fails
CallPollFails ==
    /\ call.pc = "poll"
    /\ call' = [call EXCEPT !.i = @ + 1, !.pc = "ret", !.reply = PollErrorText]
    /\ polls' = Append(polls, [status |-> "error", calls |-> <<>>, skipped |-> FALSE,
                               handled |-> FALSE, submitted |-> FALSE, batch |-> <<>>,
                               gsOk |-> TRUE, delivered |-> FALSE])
    /\ UNCHANGED <<lockVars, hookVars, debVars, turns, orchVars, channelToken, lineReplies>>

\* one iteration of the poll loop: the status is read; tool calls that were
\* not submitted yet are handled and their outputs submitted as one batch;
\* subOk: the submission request is answered. The signature and the flag
\* are set after the request, answered or not
Poll(resp, gsOk, subOk) ==
    LET n == call.i + 1
        currentSignature == Signature(resp.calls)
        guard == resp.calls # <<>> /\ AlreadySubmitted(currentSignature, call)
        aggregatedOutputs == Dispatch(resp.calls, gsOk)
        submits == resp.calls # <<>> /\ ~guard /\ aggregatedOutputs # <<>>
        continues == guard \/ submits
        after == IF submits
                 THEN [call EXCEPT !.lastToolCallSignature = currentSignature,
                                   !.submittedToolOutputs = TRUE]
                 ELSE IF ~continues
                 THEN [call EXCEPT !.submittedToolOutputs = ResetGuard(resp.status, @)]
                 ELSE call
    IN  /\ call.pc = "poll"
        /\ gsOk \/ (~guard /\ ReachesSheet(resp.calls))
        /\ subOk \/ submits
        /\ call' = [after EXCEPT !.i = n,
                                 !.pc = IF LoopEnds(continues, resp.status, n)
                                        THEN "getmsgs" ELSE "poll"]
        /\ polls' = Append(polls, [status |-> resp.status, calls |-> resp.calls,
                                   skipped |-> guard,
                                   handled |-> resp.calls # <<>> /\ ~guard,
                                   submitted |-> submits,
                                   batch |-> IF submits THEN aggregatedOutputs ELSE <<>>,
                                   gsOk |-> gsOk,
                                   delivered |-> submits /\ subOk])
        /\ UNCHANGED <<lockVars, hookVars, debVars, turns, orchVars, channelToken, lineReplies>>

\* one iteration of the poll loop whose submission request, if one is made,
\* is answered
CallPoll(resp, gsOk) == Poll(resp, gsOk, TRUE)

\* the thread's messages are read and the reply extracted
CallGetMessages(ok, list) ==
    LET r == ExtractReply(list)
    IN  /\ call.pc = "getmsgs"
        /\ IF ~ok THEN CallReturns(MessagesErrorText) ELSE CallReturns(r.reply)
        /\ userLastQAMap' =
             IF ok /\ r.cache
             THEN [userLastQAMap EXCEPT ![call.user] =
                      [Question |-> call.message, Answer |-> r.reply, has |-> TRUE]]
             ELSE userLastQAMap
        /\ UNCHANGED <<lockVars, hookVars, debVars, turns, env, userThreadMap, nextThread, stored, lastReturned>>

\* replyToLine(replyToken, responseText): nothing is posted for an empty text
\* or without the channel token
CallReply ==
    /\ call.pc = "ret"
    /\ call' = [call EXCEPT !.pc = "end"]
    /\ lineReplies' = IF call.reply # <<>> /\ channelToken
                      THEN Append(lineReplies, call.reply)
                      ELSE lineReplies
    /\ UNCHANGED <<lockVars, hookVars, debVars, turns, orchVars, channelToken, polls>>

InitCall ==
    /\ nextId = 1
    /\ fetching = [u \in Users |-> 0]
    /\ userMsgBuffer = [u \in Users |-> <<>>]
    /\ userMsgTimer = [u \in Users |-> NoTimer]
    /\ timers = {}
    /\ accepted = [u \in Users |-> <<>>]
    /\ since = [u \in Users |-> 0]
    /\ within = [u \in Users |-> TRUE]
    /\ apart = [u \in Users |-> TRUE]
    /\ separate = [u \in Users |-> TRUE]
    /\ turns = <<>>
    /\ env \in [apiKey : {TRUE}, assistantId : BOOLEAN]
    /\ userThreadMap = [u \in Users |-> IF u = NewCall.user THEN NewCall.threadId ELSE NoThread]
    /\ userLastQAMap = [u \in Users |-> NoQA]
    /\ nextThread = [u \in Users |-> IF u = NewCall.user THEN NewCall.threadId + 1 ELSE 1]
    /\ stored = [u \in Users |-> IF u = NewCall.user THEN {NewCall.threadId} ELSE {}]
    /\ lastReturned = [u \in Users |-> NoPrev]
    /\ call = NewCall
    /\ channelToken \in BOOLEAN
    /\ polls = <<>>
    /\ lineReplies = <<>>
    /\ lock = NoHolder
    /\ procs = <<>>
    /\ races = {}
    /\ requests = <<>>
    /\ posted = <<>>

NextCall ==
    \/ \E ok \in BOOLEAN : CallSend(ok)
    \/ \E ok \in BOOLEAN, runs \in RunLists : CallListRuns(ok, runs)
    \/ \E ok \in BOOLEAN : CallSweep(ok)
    \/ \E outcome \in {"error", "id", "active", "noid"} : CallCreateRun(outcome)
    \/ \E ok \in BOOLEAN : CallCancelRun(ok)
    \/ \E outcome \in {"error", "id", "noid"} : CallRetryRun(outcome)
    \/ CallPollFails
    \/ \E resp \in StatusResponses, gsOk \in BOOLEAN : CallPoll(resp, gsOk)
    \/ \E ok \in BOOLEAN, list \in MsgLists : CallGetMessages(ok, list)
    \/ CallReply

\* one call of getAssistantResponse from the message post to the reply
SpecCall == InitCall /\ [][NextCall]_vars

\* ------------------------------------- the call with every answer of a run

\* the status polls of the slot summary branch in the model
SlotPollBudget == 2

\* the source's number of status polls of the slot summary branch
SourceSlotPollBudget == 20

\* the replies of the slot summary branch for a request that fails
SlotPostErrorText == <<"Error sending", " slot info to GPT.">>

SlotRunErrorText == <<"Error running", " assistant for slot summary.">>

SlotPollErrorText == <<"Error ", "polling run status for slot summary.">>

SlotMessagesErrorText == <<"Error getting", " slot summary from GPT.">>

\* the batches of tool calls the polls of this specification present: those
\* whose calls all have a handler
RunCallLists == {cs \in CallLists : \A k \in 1..Len(cs) : cs[k].name \in ToolNames}

\* what a status poll decodes, the terminal states failed and cancelled
\* included
RunResponses ==
    { [status |-> st, calls |-> <<>>] : st \in {"in_progress", "completed", "failed", "cancelled"} }
    \cup { [status |-> "requires_action", calls |-> cs] : cs \in RunCallLists }

\* the message lists the remote side answers with when the run wrote no
\* message, newest message first: the turn's own message, then what earlier
\* turns left in the thread
RunMsgLists ==
    { <<Entry("assistant", "text", GoodReply, <<>>)>>,
      <<Entry("user", "text", <<"q1">>, <<>>), Entry("assistant", "text", <<>>, <<>>),
        Entry("assistant", "text", OlderReply, <<>>)>>,
      <<Entry("user", "text", <<"q1">>, <<>>), Entry("assistant", "text", ApologyReply, <<>>)>>,
      <<Entry("user", "text", <<"q1">>, <<>>)>>,
      <<Entry("assistant", "tool_calls", <<>>, SlotSummaryReply)>>,
      <<Entry("assistant", "tool_calls", <<>>, <<>>), Entry("assistant", "none", <<>>, <<>>)>> }

RECURSIVE Walk(_, _)
\* the loop over msgList.Data from the newest message on: it stops with a
\* reply (stale: the message lies behind a message of the user), enters the
\* slot summary branch at a tool_calls message, or runs out with ""
Walk(list, own) ==
    IF list = <<>>
    THEN [kind |-> "reply", reply |-> <<>>, cache |-> FALSE, stale |-> FALSE,
          slot |-> <<>>, rest |-> <<>>, own |-> own]
    ELSE LET e == Head(list)
         IN  IF e.role = "assistant" /\ e.type = "tool_calls"
             THEN [kind |-> "slot", reply |-> <<>>, cache |-> FALSE, stale |-> FALSE,
                   slot |-> e.slot, rest |-> Tail(list), own |-> own]
             ELSE IF Decide(e).stop
             THEN [kind |-> "reply", reply |-> Decide(e).reply, cache |-> Decide(e).cache,
                   stale |-> ~own, slot |-> <<>>, rest |-> <<>>, own |-> own]
             ELSE Walk(Tail(list), own /\ e.role # "user")

\* the loop over the list takes its decision w: the reply is returned, after
\* a text to cache was stored under the lock, or the slot summary branch starts
Extracted(w) ==
    /\ call' = IF w.kind = "slot"
               THEN [call EXCEPT !.pc = "slot", !.slot = w.slot, !.rest = w.rest, !.own = w.own]
               ELSE [call EXCEPT !.pc = "ret", !.reply = w.reply, !.stale = w.stale,
                                 !.slot = <<>>, !.rest = <<>>, !.j = 0]
    /\ userLastQAMap' =
         IF w.kind = "reply" /\ w.cache
         THEN [userLastQAMap EXCEPT ![call.user] =
                  [Question |-> call.message, Answer |-> w.reply, has |-> TRUE]]
         ELSE userLastQAMap

\* what the steps of the reply extraction leave alone
runFrame == <<lockVars, hookVars, debVars, turns, env, userThreadMap, nextThread, stored,
              lastReturned, channelToken, polls, lineReplies>>

\* one iteration of the poll loop, for every status and for a submission
\* request that is answered or not
RunPoll(resp, subOk) == Poll(resp, TRUE, subOk)

\* the thread's messages are read and the loop over them starts
RunGetMessages(ok, list) ==
    /\ call.pc = "getmsgs"
    /\ IF ok THEN Extracted(Walk(list, TRUE))
       ELSE /\ call' = [call EXCEPT !.pc = "ret", !.reply = MessagesErrorText]
            /\ UNCHANGED userLastQAMap
    /\ UNCHANGED runFrame

\* the slot summary branch up to its run: the sheet is read, its answer is
\* posted to the thread and a run is created; outcome names the request
\* that fails, "ok" when none does
RunSlotStart(outcome) ==
    /\ call.pc = "slot"
    /\ call' = IF outcome = "sheet" THEN [call EXCEPT !.pc = "ret", !.reply = SheetErrorText]
               ELSE IF outcome = "post" THEN [call EXCEPT !.pc = "ret", !.reply = SlotPostErrorText]
               ELSE IF outcome = "run" THEN [call EXCEPT !.pc = "ret", !.reply = SlotRunErrorText]
               ELSE [call EXCEPT !.pc = "slotpoll", !.j = 0]
    /\ UNCHANGED <<userLastQAMap, runFrame>>

\* mutant of SlotLoopEnds: only a completed run ends the loop
SlotLoopEndsOnCompleted(status, n) == status = "completed"

\* the loop "for j := 0; j < 20; j++" is left after poll n
SlotLoopEnds(status, n) == n = SlotPollBudget \/ status = "completed"

\* one status poll of the slot summary branch
RunSlotPoll(status) ==
    LET n == call.j + 1
    IN  /\ call.pc = "slotpoll"
        /\ call' = IF status = "error"
                   THEN [call EXCEPT !.j = n, !.pc = "ret", !.reply = SlotPollErrorText]
                   ELSE [call EXCEPT !.j = n,
                                     !.pc = IF SlotLoopEnds(status, n) THEN "slotmsgs" ELSE "slotpoll"]
        /\ UNCHANGED <<userLastQAMap, runFrame>>

\* the slot summary branch reads the thread's messages: the text it finds is
\* returned; without one the loop over the first list goes on
RunSlotMessages(ok) ==
    /\ call.pc = "slotmsgs"
    /\ IF ~ok
       THEN /\ call' = [call EXCEPT !.pc = "ret", !.reply = SlotMessagesErrorText]
            /\ UNCHANGED userLastQAMap
       ELSE IF call.slot # <<>>
       THEN /\ call' = [call EXCEPT !.pc = "ret", !.reply = call.slot,
                                    !.slot = <<>>, !.rest = <<>>, !.j = 0]
            /\ UNCHANGED userLastQAMap
       ELSE Extracted(Walk(call.rest, call.own))
    /\ UNCHANGED runFrame

\* the call is made with both credentials
InitRun == InitCall /\ env.assistantId /\ channelToken

NextRun ==
    \/ \E ok \in BOOLEAN : CallSend(ok)
    \/ \E ok \in BOOLEAN, runs \in RunLists : CallListRuns(ok, runs)
    \/ \E ok \in BOOLEAN : CallSweep(ok)
    \/ \E outcome \in {"error", "id", "active", "noid"} : CallCreateRun(outcome)
    \/ \E ok \in BOOLEAN : CallCancelRun(ok)
    \/ \E outcome \in {"error", "id", "noid"} : CallRetryRun(outcome)
    \/ CallPollFails
    \/ \E resp \in RunResponses, subOk \in BOOLEAN : RunPoll(resp, subOk)
    \/ \E ok \in BOOLEAN, list \in RunMsgLists : RunGetMessages(ok, list)
    \/ \E outcome \in {"sheet", "post", "run", "ok"} : RunSlotStart(outcome)
    \/ \E status \in {"error", "in_progress", "completed"} : RunSlotPoll(status)
    \/ \E ok \in BOOLEAN : RunSlotMessages(ok)
    \/ CallReply

\* one call of getAssistantResponse with every answer of the remote side:
\* runs that fail or are cancelled, submissions that are not answered, and
\* the requests of the slot summary branch one by one
SpecRun == InitRun /\ [][NextRun]_vars

\* the remote side answers every request
SpecRunLive == SpecRun /\ WF_vars(NextRun)

\* ------------------------------------------------ claims on the poll loop
\* poll k saw the run require action with tool calls
AsksFor(k) == polls[k].status = "requires_action" /\ polls[k].calls # <<>>

\* C12: when a poll sees the run require action with the signature of the
\* poll before, and at that poll the outputs were submitted or already
\* skipped as submitted, it invokes no handler and submits nothing.
C12_NoResubmission ==
    \A k \in 1..(Len(polls) - 1) :
        (/\ AsksFor(k)
         /\ AsksFor(k + 1)
         /\ Signature(polls[k + 1].calls) = Signature(polls[k].calls)
         /\ (polls[k].submitted \/ polls[k].skipped))
            => (/\ polls[k + 1].skipped
                /\ ~polls[k + 1].handled
                /\ ~polls[k + 1].submitted
                /\ polls[k + 1].batch = <<>>)

\* C12 witness: outputs submitted at the first poll, the same signature
\* seen and skipped at the next two
C12_Witness ==
    /\ Len(polls) >= 3
    /\ \A k \in 1..3 : AsksFor(k) /\ Signature(polls[k].calls) = Signature(polls[1].calls)
    /\ polls[1].submitted
    /\ polls[2].skipped
    /\ polls[3].skipped

\* C13: every poll that sees the run require action with tool calls whose
\* signature is not the one already submitted submits one batch, which
\* holds one output for every requested tool call id, in order.
C13_OneOutputPerCall ==
    \A k \in 1..Len(polls) :
        (AsksFor(k) /\ ~polls[k].skipped) =>
            /\ polls[k].submitted
            /\ [j \in 1..Len(polls[k].batch) |-> polls[k].batch[j].tool_call_id]
                   = IdsOf(polls[k].calls)

\* the call is past the run creation and its retry
PastRunCreation == call.pc \in {"poll", "getmsgs", "ret", "end"} /\ call.creates > 0

C17_NeverSilent ==
    (call.pc = "end" /\ channelToken) => lineReplies = <<call.reply>>

\* ------------------------------------------- the goroutines and the lock
\* number of webhook message events delivered in one behaviour of SpecLock
MaxEvents == 2

\* the critical sections of userThreadLock, named by what they do: the
\* handler's "buffer"; the callback's "take", "qa" (duplicate check), "th"
\* (thread lookup), "store" (thread store) and "cache" (answer store).
\* A goroutine at a section holds the lock or waits in Lock() for it
Sections == {"buffer", "take", "qa", "th", "store", "cache"}

\* where a goroutine sits in a remote call: getLineImageURL, POST /v1/threads,
\* the requests from the message post to the message list, replyToLine
RemoteCalls == {"fetch", "create", "remote", "reply"}

\* a goroutine: a webhook handler with the content of its event, or the
\* callback of a timer with the messages it took and its reply
Proc(kind, u, pc, content) ==
    [kind |-> kind, user |-> u, pc |-> pc, content |-> content,
     msgs |-> <<>>, threadId |-> NoThread, reply |-> <<>>]

\* the maps a step touched without the lock are added to races
Access(p, maps) == IF lock = p THEN races ELSE races \cup maps

\* what every step of SpecLock leaves alone
lockFrame == <<nextId, fetching, timers, accepted, since, within, apart, separate,
               turns, env, lastReturned, callVars, hookVars>>

\* no goroutine is inside a critical section or at the log line that
\* follows the handler's Unlock: these make no call that blocks, and they
\* run on before the steps of the other goroutines are taken
Settled == lock = NoHolder /\ \A q \in 1..Len(procs) : procs[q].pc # "log"

\* goroutine p is at pc, outside the critical sections
At(p, pc) == p \in 1..Len(procs) /\ procs[p].pc = pc /\ Settled

\* a goroutine that is over, or a timer that was stopped
Over(p, pc) == Proc(procs[p].kind, procs[p].user, pc, <<>>)

\* goroutine p is inside critical section pc
In(p, pc) == p \in 1..Len(procs) /\ procs[p].pc = pc /\ lock = p

\* a webhook message event arrives: an image is downloaded first. The users
\* are interchangeable: the first event is U1's
Event(u, type) ==
    /\ Cardinality({p \in 1..Len(procs) : procs[p].kind = "handler"}) < MaxEvents
    /\ procs = <<>> => u = "U1"
    /\ Settled
    /\ procs' = Append(procs, IF type = "image"
                              THEN Proc("handler", u, "fetch", <<>>)
                              ELSE Proc("handler", u, "buffer", <<"q1">>))
    /\ UNCHANGED <<lock, races, userMsgBuffer, userMsgTimer, userThreadMap, userLastQAMap,
                   nextThread, stored, lockFrame>>

\* getLineImageURL returns
Fetched(p, ok) ==
    /\ At(p, "fetch")
    /\ procs' = [procs EXCEPT ![p].pc = "buffer", ![p].content = ImageContent(ok)]
    /\ UNCHANGED <<lock, races, userMsgBuffer, userMsgTimer, userThreadMap, userLastQAMap,
                   nextThread, stored, lockFrame>>

\* userThreadLock.Lock() returns
Acquire(p) ==
    /\ p \in 1..Len(procs)
    /\ procs[p].pc \in Sections
    /\ Settled
    /\ lock' = p
    /\ UNCHANGED <<procs, races, userMsgBuffer, userMsgTimer, userThreadMap, userLastQAMap,
                   nextThread, stored, lockFrame>>

\* the handler's critical section: append, stop the timer the map holds,
\* start a new timer (its callback is goroutine Len(procs) + 1), Unlock
HandlerBuffer(p) ==
    LET u == procs[p].user
        old == userMsgTimer[u]
        new == Len(procs) + 1
        stopped == IF old # NoTimer /\ procs[old].pc = "pending"
                   THEN [procs EXCEPT ![old] = Over(old, "stopped")]
                   ELSE procs
    IN  /\ In(p, "buffer")
        /\ userMsgBuffer' = [userMsgBuffer EXCEPT ![u] = Append(@, Msg(p, procs[p].content))]
        /\ userMsgTimer' = [userMsgTimer EXCEPT ![u] = new]
        /\ procs' = Append([stopped EXCEPT ![p] = Over(p, "log")], Proc("callback", u, "pending", <<>>))
        /\ races' = Access(p, {"userMsgBuffer", "userMsgTimer"})
        /\ lock' = NoHolder
        /\ UNCHANGED <<userThreadMap, userLastQAMap, nextThread, stored, lockFrame>>

\* the handler's log line after Unlock reads len(userMsgBuffer[userId])
HandlerLog(p) ==
    /\ p \in 1..Len(procs)
    /\ procs[p].pc = "log"
    /\ procs' = [procs EXCEPT ![p] = Over(p, "done")]
    /\ races' = Access(p, {"userMsgBuffer"})
    /\ UNCHANGED <<lock, userMsgBuffer, userMsgTimer, userThreadMap, userLastQAMap,
                   nextThread, stored, lockFrame>>

\* the delay of a timer is over: its callback starts and calls Lock()
Fire(p) ==
    /\ At(p, "pending")
    /\ procs' = [procs EXCEPT ![p].pc = "take"]
    /\ UNCHANGED <<lock, races, userMsgBuffer, userMsgTimer, userThreadMap, userLastQAMap,
                   nextThread, stored, lockFrame>>

\* mutant of TakeBuffer: the callback clears every user's buffer
TakeAllBuffers(buf, u) == [x \in Users |-> <<>>]

\* userMsgBuffer[userId] = nil
TakeBuffer(buf, u) == [buf EXCEPT ![u] = <<>>]

\* the callback's first critical section: take the buffer, delete the timer
\* handle, Unlock; without messages the callback is over
CallbackTake(p) ==
    LET u == procs[p].user
        msgs == userMsgBuffer[u]
    IN  /\ In(p, "take")
        /\ userMsgBuffer' = TakeBuffer(userMsgBuffer, u)
        /\ userMsgTimer' = [userMsgTimer EXCEPT ![u] = NoTimer]
        /\ procs' = IF msgs = <<>>
                    THEN [procs EXCEPT ![p] = Over(p, "done")]
                    ELSE [procs EXCEPT ![p].msgs = msgs, ![p].pc = "qa"]
        /\ races' = Access(p, {"userMsgBuffer", "userMsgTimer"})
        /\ lock' = NoHolder
        /\ UNCHANGED <<userThreadMap, userLastQAMap, nextThread, stored, lockFrame>>

\* the duplicate check: the entry is read under the lock; on a hit the
\* cached answer is the reply
CallbackCheckCache(p) ==
    LET u == procs[p].user
        qa == userLastQAMap[u]
    IN  /\ In(p, "qa")
        /\ procs' = IF CacheHit(qa, Summary(procs[p].msgs))
                    THEN [procs EXCEPT ![p].pc = "reply", ![p].reply = qa.Answer]
                    ELSE IF ~env.apiKey
                    THEN [procs EXCEPT ![p].pc = "reply", ![p].reply = ApiKeyMissingText]
                    ELSE [procs EXCEPT ![p].pc = "th"]
        /\ races' = Access(p, {"userLastQAMap"})
        /\ lock' = NoHolder
        /\ UNCHANGED <<userMsgBuffer, userMsgTimer, userThreadMap, userLastQAMap,
                       nextThread, stored, lockFrame>>

\* mutant of CallbackLookup: the lock is kept over the thread creation
CallbackLookupKeepsLock(p) ==
    LET u == procs[p].user
    IN  /\ In(p, "th")
        /\ procs' = IF userThreadMap[u] # NoThread
                    THEN [procs EXCEPT ![p].pc = "remote", ![p].threadId = userThreadMap[u]]
                    ELSE [procs EXCEPT ![p].pc = "create"]
        /\ races' = Access(p, {"userThreadMap"})
        /\ UNCHANGED <<lock, userMsgBuffer, userMsgTimer, userThreadMap, userLastQAMap,
                       nextThread, stored, lockFrame>>

\* the thread lookup under the lock
CallbackLookup(p) ==
    LET u == procs[p].user
    IN  /\ In(p, "th")
        /\ procs' = IF userThreadMap[u] # NoThread
                    THEN [procs EXCEPT ![p].pc = "remote", ![p].threadId = userThreadMap[u]]
                    ELSE [procs EXCEPT ![p].pc = "create"]
        /\ races' = Access(p, {"userThreadMap"})
        /\ lock' = NoHolder
        /\ UNCHANGED <<userMsgBuffer, userMsgTimer, userThreadMap, userLastQAMap,
                       nextThread, stored, lockFrame>>

\* POST /v1/threads returns: without an id the call is over, with one the
\* callback calls Lock() to store it
CallbackCreated(p, ok) ==
    LET u == procs[p].user
    IN  /\ At(p, "create")
        /\ procs' = IF ok
                    THEN [procs EXCEPT ![p].pc = "store", ![p].threadId = nextThread[u]]
                    ELSE [procs EXCEPT ![p].pc = "reply", ![p].reply = ThreadErrorText]
        /\ nextThread' = IF ok THEN [nextThread EXCEPT ![u] = @ + 1] ELSE nextThread
        /\ UNCHANGED <<lock, races, userMsgBuffer, userMsgTimer, userThreadMap, userLastQAMap,
                       stored, lockFrame>>

\* the new thread id is stored under the lock
CallbackStore(p) ==
    LET u == procs[p].user
    IN  /\ In(p, "store")
        /\ userThreadMap' = [userThreadMap EXCEPT ![u] = procs[p].threadId]
        /\ stored' = [stored EXCEPT ![u] = @ \cup {procs[p].threadId}]
        /\ procs' = [procs EXCEPT ![p].pc = "remote"]
        /\ races' = Access(p, {"userThreadMap"})
        /\ lock' = NoHolder
        /\ UNCHANGED <<userMsgBuffer, userMsgTimer, userLastQAMap, nextThread, lockFrame>>

\* the requests from the message post to the message list are over: one of
\* them failed, or the reply is a text to cache
CallbackAnswered(p, ok) ==
    /\ At(p, "remote")
    /\ procs' = IF ok
                THEN [procs EXCEPT ![p].pc = "cache", ![p].reply = GoodReply]
                ELSE [procs EXCEPT ![p].pc = "reply", ![p].reply = SendErrorText]
    /\ UNCHANGED <<lock, races, userMsgBuffer, userMsgTimer, userThreadMap, userLastQAMap,
                   nextThread, stored, lockFrame>>

\* mutant of StoreQA: the answer is stored for every user
StoreQAForAll(qaMap, u, q, a) == [x \in Users |-> [Question |-> q, Answer |-> a, has |-> TRUE]]

\* userLastQAMap[userId] = {Question: message, Answer: reply}
StoreQA(qaMap, u, q, a) == [qaMap EXCEPT ![u] = [Question |-> q, Answer |-> a, has |-> TRUE]]

\* the successful reply is stored under the lock
CallbackCache(p) ==
    LET u == procs[p].user
    IN  /\ In(p, "cache")
        /\ userLastQAMap' = StoreQA(userLastQAMap, u, Summary(procs[p].msgs), procs[p].reply)
        /\ procs' = [procs EXCEPT ![p].pc = "reply"]
        /\ races' = Access(p, {"userLastQAMap"})
        /\ lock' = NoHolder
        /\ UNCHANGED <<userMsgBuffer, userMsgTimer, userThreadMap, nextThread, stored, lockFrame>>

\* replyToLine returns: the callback is over
CallbackReplied(p) ==
    /\ At(p, "reply")
    /\ procs' = [procs EXCEPT ![p] = Over(p, "done")]
    /\ UNCHANGED <<lock, races, userMsgBuffer, userMsgTimer, userThreadMap, userLastQAMap,
                   nextThread, stored, lockFrame>>

NextLock ==
    \/ \E u \in Users, type \in {"text", "image"} : Event(u, type)
    \/ \E p \in 1..Len(procs), ok \in BOOLEAN : Fetched(p, ok)
    \/ \E p \in 1..Len(procs) : Acquire(p)
    \/ \E p \in 1..Len(procs) : HandlerBuffer(p)
    \/ \E p \in 1..Len(procs) : HandlerLog(p)
    \/ \E p \in 1..Len(procs) : Fire(p)
    \/ \E p \in 1..Len(procs) : CallbackTake(p)
    \/ \E p \in 1..Len(procs) : CallbackCheckCache(p)
    \/ \E p \in 1..Len(procs) : CallbackLookup(p)
    \/ \E p \in 1..Len(procs), ok \in BOOLEAN : CallbackCreated(p, ok)
    \/ \E p \in 1..Len(procs) : CallbackStore(p)
    \/ \E p \in 1..Len(procs), ok \in BOOLEAN : CallbackAnswered(p, ok)
    \/ \E p \in 1..Len(procs) : CallbackCache(p)
    \/ \E p \in 1..Len(procs) : CallbackReplied(p)

\* the goroutines of the webhook and of the timers, lock operation by lock
\* operation; a timer fires at any time after it was started
SpecLock == Init /\ [][NextLock]_vars

\* ------------------------------------------------- claims on the goroutines
\* the entries of user b in the four maps are the same after the step
SameEntries(b) ==
    /\ userMsgBuffer'[b] = userMsgBuffer[b]
    /\ userMsgTimer'[b] = userMsgTimer[b]
    /\ userThreadMap'[b] = userThreadMap[b]
    /\ userLastQAMap'[b] = userLastQAMap[b]

\* the callback p, fired, takes a step of its turn
TurnStep(p) ==
    /\ procs[p].kind = "callback"
    /\ procs[p].pc \notin {"pending", "stopped"}
    /\ procs'[p] # procs[p]

\* C18: a step of the turn of one user, from the callback's first critical
\* section to its reply, on success and on every failure, leaves the
\* buffer, the timer handle, the thread id and the cache entry of every
\* other user as they were.
C18_OtherUsersUntouched ==
    [][\A p \in 1..Len(procs) :
          TurnStep(p) => \A b \in Users \ {procs[p].user} : SameEntries(b)]_vars

\* C18 witness: the turn of one user has stored its thread and its answer
\* while another user has a buffered message and a timer
C18_Witness ==
    \E p \in 1..Len(procs), b \in Users :
        /\ procs[p].kind = "callback"
        /\ procs[p].pc = "reply"
        /\ procs[p].user # b
        /\ userLastQAMap[procs[p].user].has
        /\ userThreadMap[procs[p].user] # NoThread
        /\ userMsgBuffer[b] # <<>>
        /\ userMsgTimer[b] # NoTimer

\* C19: no goroutine has read or written one of the shared maps without
\* holding the lock.
C19_MapsUnderLock == races = {}

\* C20: a goroutine that sits in a remote call does not hold the lock: the
\* lock is free or held by a goroutine inside a critical section, so the
\* handler of another user's message gets it.
C20_NoLockWhileBlocked ==
    /\ \A p \in 1..Len(procs) : procs[p].pc \in RemoteCalls => lock # p
    /\ lock # NoHolder => procs[lock].pc \in Sections

\* C20 witness: the handler of one user's message is inside its critical
\* section while the callback of another user sits in a remote call
C20_Witness ==
    \E p, q \in 1..Len(procs) :
        /\ procs[p].kind = "callback"
        /\ procs[p].pc \in {"create", "remote", "reply"}
        /\ procs[q].kind = "handler"
        /\ procs[q].user # procs[p].user
        /\ procs[q].pc = "buffer"
        /\ lock = q

\* ------------------------------------------------- the webhook requests
\* number of POST /webhook requests in one behaviour
MaxRequests == 2

\* fiber.StatusBadRequest, fiber.StatusOK, and no response sent yet
StatusBadRequest == 400

StatusOK == 200

NoStatus == 0

\* one element of event.Events: its type, its message type, the user and
\* the text
WebhookEvent(type, mtype, u, text) == [type |-> type, mtype |-> mtype, user |-> u, text |-> text]

\* a request body: whether json.Unmarshal accepts it, and the events written
\* in it
Body(valid, events) == [valid |-> valid, events |-> events]

\* the bodies posted to /webhook
Bodies ==
    { Body(FALSE, <<WebhookEvent("message", "text", "U1", <<"q1">>)>>),
      Body(TRUE, <<>>),
      Body(TRUE, <<WebhookEvent("message", "text", "U1", <<"q1">>)>>),
      Body(TRUE, <<WebhookEvent("message", "image", "U1", <<>>)>>),
      Body(TRUE, <<WebhookEvent("follow", "", "U2", <<>>),
                   WebhookEvent("message", "sticker", "U1", <<>>),
                   WebhookEvent("message", "text", "U2", <<"q2">>)>>) }

\* mutant of Decode: a body that does not parse is handled like one that does
DecodeLenient(body) == [err |-> FALSE, events |-> body.events]

\* json.Unmarshal(c.Body(), &event)
Decode(body) == [err |-> ~body.valid, events |-> IF body.valid THEN body.events ELSE <<>>]

\* mutant of Buffered: every message event is buffered
BufferedAnyMessage(e) == e.type = "message"

\* the events the loop buffers: message events of type text or image
Buffered(e) == e.type = "message" /\ e.mtype \in {"text", "image"}

\* messageContent; ok: getLineImageURL returns the data URL
MessageContent(e, ok) == IF e.mtype = "image" THEN ImageContent(ok) ELSE e.text

\* the number of UTF-8 bytes of the Thai words of the image prefix (15
\* characters of 3 bytes) and of the ": " after them
ThaiWordBytes == 45

ColonSpaceBytes == 2

\* the length the image check cuts the message at, and the length the
\* message has to exceed
PrefixCut == 15

MinImageLen == 20

\* the bytes of a token: of the image prefix as the source file holds it,
\* of the other tokens one per character
TokenBytes(tok) ==
    [b \in 1..(IF tok = ImagePrefix THEN ThaiWordBytes + ColonSpaceBytes ELSE Len(tok)) |-> <<tok, b>>]

\* the bytes of a text
Utf8(s) == Flatten([i \in 1..Len(s) |-> TokenBytes(s[i])])

\* the string literals of the image check: the prefix with and without its
\* last space
PrefixLiteral == Utf8(<<ImagePrefix>>)

PrefixLiteralNoSpace == SubSeq(PrefixLiteral, 1, Len(PrefixLiteral) - 1)

\* len(message) > 20 && (message[:15] == "<prefix>: " || message[:15] == "<prefix>:")
IsImageMessage(message) ==
    LET bytes == Utf8(message)
    IN  /\ Len(bytes) > MinImageLen
        /\ \/ SubSeq(bytes, 1, PrefixCut) = PrefixLiteral
           \/ SubSeq(bytes, 1, PrefixCut) = PrefixLiteralNoSpace

\* msgReq: for an image message a text part and an image_url part with
\* message[15:] as url, else the message as plain text after the time
MessagePayload(message) ==
    IF IsImageMessage(message)
    THEN [role |-> "user", kind |-> "parts",
          content |-> <<[type |-> "text", text |-> <<"time: ", "customer-sent-a-picture, please analyse">>],
                        [type |-> "image_url",
                         url |-> SubSeq(Utf8(message), PrefixCut + 1, Len(Utf8(message)))]>>]
    ELSE [role |-> "user", kind |-> "text", content |-> <<"time: ">> \o message]

\* a request arrives and its body is decoded; a body that does not parse is
\* answered 400 at once
HookRequest(body) ==
    /\ Len(requests) < MaxRequests
    /\ requests' = Append(requests,
                          [body |-> body, events |-> Decode(body).events, pos |-> 1,
                           status |-> IF Decode(body).err THEN StatusBadRequest ELSE NoStatus,
                           ids |-> <<>>])
    /\ UNCHANGED <<debVars, turns, orchVars, callVars, lockVars, posted>>

\* one round of the loop over the events: a text or image message is
\* buffered (an image after its download), any other event is skipped
HookEvent(r, ok) ==
    LET q == requests[r]
        e == q.events[q.pos]
    IN  /\ q.status = NoStatus
        /\ q.pos <= Len(q.events)
        /\ ok \/ e.mtype = "image"
        /\ IF Buffered(e)
           THEN /\ BufferMessage(e.user, Msg(nextId, MessageContent(e, ok)))
                /\ nextId' = nextId + 1
                /\ requests' = [requests EXCEPT ![r].pos = @ + 1, ![r].ids = Append(@, nextId)]
                /\ UNCHANGED fetching
           ELSE /\ requests' = [requests EXCEPT ![r].pos = @ + 1]
                /\ UNCHANGED debVars
        /\ UNCHANGED <<turns, orchVars, callVars, lockVars, posted>>

\* the loop is over: c.SendStatus(fiber.StatusOK)
HookRespond(r) ==
    /\ requests[r].status = NoStatus
    /\ requests[r].pos > Len(requests[r].events)
    /\ requests' = [requests EXCEPT ![r].status = StatusOK]
    /\ UNCHANGED <<debVars, turns, orchVars, callVars, lockVars, posted>>

\* getAssistantResponse for an emitted turn, up to the message post: no
\* cached answer, the API key set, the payload built and posted
HookPost(i) ==
    /\ turns[i].pc = "check"
    /\ ~CacheHit(userLastQAMap[turns[i].user], turns[i].message)
    /\ env.apiKey
    /\ posted' = Append(posted, [message |-> turns[i].message,
                                 payload |-> MessagePayload(turns[i].message)])
    /\ turns' = [turns EXCEPT ![i].pc = "end"]
    /\ UNCHANGED <<debVars, orchVars, callVars, lockVars, requests>>

\* the 15 seconds of a pending timer pass; how long the other timers have
\* run is left open
HookElapse(t) ==
    /\ t \in timers
    /\ t.state = "pending"
    /\ t.left > 0
    /\ timers' = (timers \ {t}) \cup {[t EXCEPT !.left = 0]}
    /\ UNCHANGED <<nextId, fetching, userMsgBuffer, userMsgTimer, accepted, since, within,
                   apart, separate, turns, orchVars, callVars, lockVars, hookVars>>

NextHook ==
    \/ \E body \in Bodies : HookRequest(body)
    \/ \E r \in 1..Len(requests), ok \in BOOLEAN : HookEvent(r, ok)
    \/ \E r \in 1..Len(requests) : HookRespond(r)
    \/ \E t \in timers : HookElapse(t)
    \/ \E t \in timers : TimerFire(t)
    \/ \E t \in timers : TimerCallback(t)
    \/ \E i \in 1..Len(turns) : HookPost(i)

\* the webhook handler with whole requests, the timers and the message post
SpecHook == Init /\ [][NextHook]_vars

\* ------------------------------------------ claims on failures of a turn
\* a turn returns because a credential is missing: the API key check or the
\* assistant id check ends it
LacksCredential(w) ==
    /\ w.pc = "ret"
    /\ \/ ~env.apiKey /\ w.reply = ApiKeyMissingText
       \/ ~env.assistantId /\ w.reply = AssistantIdMissingText

\* C22: a turn that a missing credential (CHATGPT_API_KEY or
\* OPENAI_ASSISTANT_ID) ends has made no remote call: no thread creation, no
\* message submission, no run creation.
C22_NoRemoteCallWithoutCredential ==
    \A i \in 1..Len(turns) : LacksCredential(turns[i]) => ~turns[i].contacted

\* the run of turn i does not start: its creation request fails or comes
\* back without an id
RunFails(i) ==
    /\ i \in 1..Len(turns')
    /\ turns[i].pc = "submit"
    /\ turns'[i].pc = "ret"
    /\ turns'[i].reply \in {RunErrorText, RunFailedText}

\* C27: the step in which the run of a turn does not start leaves the
\* thread id, the cache entry, the buffer and the timer handle of the user
\* as they were, and the user still has a thread id, which the lookup of the
\* next turn finds.
C27_RunFailureKeepsSession ==
    [][\A i \in 1..Len(turns) :
          RunFails(i) =>
              LET u == turns[i].user
              IN  /\ userThreadMap'[u] = userThreadMap[u]
                  /\ userThreadMap'[u] # NoThread
                  /\ userLastQAMap'[u] = userLastQAMap[u]
                  /\ userMsgBuffer'[u] = userMsgBuffer[u]
                  /\ userMsgTimer'[u] = userMsgTimer[u]]_vars

\* C27 witness: a turn returns "Failed to start run." on the thread an
\* earlier turn of the user created, the answer of that turn still cached
C27_Witness ==
    \E i \in 1..Len(turns) :
        /\ turns[i].pc = "ret"
        /\ turns[i].reply = RunFailedText
        /\ turns[i].threadId = userThreadMap[turns[i].user]
        /\ userThreadMap[turns[i].user] # NoThread
        /\ nextThread[turns[i].user] = 2
        /\ userLastQAMap[turns[i].user].has

\* ------------------------------- claims on the run list and the tool calls
\* every active run of the listing has had its cancel request
AllSwept ==
    \A k \in 1..Len(call.listed) :
        ActiveRun(call.listed[k]) =>
            \E j \in 1..Len(call.swept) : call.swept[j].id = call.listed[k].id

\* C23: when the call is about to send the run creation request, a cancel
\* request has been made for every run the listing showed in_progress or
\* requires_action; and the listing and the cancel requests, failed or not,
\* lead to the run creation and never end the call.
C23_ActiveRunsCancelledFirst ==
    /\ [](call.pc = "run" => AllSwept)
    /\ [][call.pc \in {"list", "sweep"} => call'.pc \in {"sweep", "run"}]_vars

\* C23 witness: two active runs were listed, the first cancel request failed,
\* the second was made all the same, and the run creation is next
C23_Witness ==
    /\ call.pc = "run"
    /\ Len(call.swept) = 2
    /\ ~call.swept[1].ok
    /\ call.listed # <<>>

\* some call of poll k has a handler
HasHandler(k) == \E j \in 1..Len(polls[k].calls) : polls[k].calls[j].name \in ToolNames

\* C24: a poll that sees the run require action right after a poll that saw
\* another status is not skipped as submitted: its calls are handled and
\* their outputs submitted, whatever its signature.
C24_GuardClearedAfterOtherStatus ==
    \A k \in 1..(Len(polls) - 1) :
        (polls[k].status # "requires_action" /\ AsksFor(k + 1)) =>
            /\ ~polls[k + 1].skipped
            /\ polls[k + 1].handled
            /\ HasHandler(k + 1) => polls[k + 1].submitted

\* C24 witness: a batch is submitted, the next poll sees in_progress, and the
\* poll after it submits a batch with the same signature again
C24_Witness ==
    \E k \in 1..(Len(polls) - 2) :
        /\ polls[k].submitted
        /\ polls[k + 1].status = "in_progress"
        /\ AsksFor(k + 2)
        /\ Signature(polls[k + 2].calls) = Signature(polls[k].calls)
        /\ polls[k + 2].submitted

\* the handler of call c fails: its arguments do not parse, or its request
\* to the sheet is not answered
FailingCall(c, gsOk) ==
    /\ c.name \in ToolNames
    /\ \/ c.name # "get_available_slots_with_months" /\ Contains(c.args, "not-json")
       \/ c.name = "get_available_slots_with_months" /\ Contains(c.args, "thai_month_year") /\ ~gsOk

\* an output that carries an error text
IsErrorOutput(o) == o \in {ParseErrorText(n) : n \in ToolNames} \cup {SheetErrorText}

\* the batch of poll k has an output for call id
HasOutput(k, id) == \E x \in 1..Len(polls[k].batch) : polls[k].batch[x].tool_call_id = id

\* C28: when a poll handles tool calls and the handler of one fails, the
\* batch is submitted all the same, it holds the error text under the id of
\* the failed call, and it holds an output for every other call that has a
\* handler.
C28_FailedCallKeepsBatch ==
    \A k \in 1..Len(polls) :
        polls[k].handled =>
            \A j \in 1..Len(polls[k].calls) :
                FailingCall(polls[k].calls[j], polls[k].gsOk) =>
                    /\ polls[k].submitted
                    /\ \E x \in 1..Len(polls[k].batch) :
                           /\ polls[k].batch[x].tool_call_id = polls[k].calls[j].id
                           /\ IsErrorOutput(polls[k].batch[x].output)
                    /\ \A m \in 1..Len(polls[k].calls) :
                           polls[k].calls[m].name \in ToolNames =>
                               HasOutput(k, polls[k].calls[m].id)

\* C28 witness: the arguments of the first call do not parse and the sheet
\* request of the second fails; both error texts are submitted in one batch
C28_Witness ==
    \E k \in 1..Len(polls) :
        /\ polls[k].submitted
        /\ ~polls[k].gsOk
        /\ Len(polls[k].calls) = 2
        /\ FailingCall(polls[k].calls[1], polls[k].gsOk)
        /\ FailingCall(polls[k].calls[2], polls[k].gsOk)
        /\ Len(polls[k].batch) = 2
        /\ polls[k].batch[1].output = ParseErrorText("get_ncs_pricing")
        /\ polls[k].batch[2].output = SheetErrorText

\* ------------------------------------------ claims on the webhook requests
\* the ids of the messages of user u that were ever buffered
AcceptedIds(u) == {accepted[u][k].id : k \in 1..Len(accepted[u])}

\* the events of a body that carry a text or an image message
MessageEvents(events) ==
    SelectSeq(events, LAMBDA e : e.type = "message" /\ e.mtype \in {"text", "image"})

\* request r is answered as its body asks: 400 and nothing buffered for a
\* body that does not parse; else no answer before the loop is over, and at
\* the answer 200 every text and image message of the body is buffered
AnsweredRight(r) ==
    LET q == requests[r]
        msgs == MessageEvents(q.body.events)
    IN  IF ~q.body.valid
        THEN q.status = StatusBadRequest /\ q.ids = <<>>
        ELSE /\ q.status \in {NoStatus, StatusOK}
             /\ q.status = StatusOK =>
                    /\ q.pos = Len(q.body.events) + 1
                    /\ Len(q.ids) = Len(msgs)
                    /\ \A k \in 1..Len(msgs) : q.ids[k] \in AcceptedIds(msgs[k].user)

\* a request arrives with a body that does not parse
MalformedArrives ==
    /\ Len(requests') = Len(requests) + 1
    /\ ~requests'[Len(requests')].body.valid

\* C21: a request whose body does not parse is answered 400 and buffers
\* nothing, stops no timer and starts none; every other request is answered
\* 200 once all its text and image messages are buffered, and its handler
\* can always take its next step, whatever the turns are doing.
C21_RequestAnswers ==
    /\ [](\A r \in 1..Len(requests) : AnsweredRight(r))
    /\ [](\A r \in 1..Len(requests) :
             requests[r].status = NoStatus =>
                 ENABLED (HookRespond(r) \/ \E ok \in BOOLEAN : HookEvent(r, ok)))
    /\ [][MalformedArrives => UNCHANGED <<userMsgBuffer, userMsgTimer, timers>>]_vars

\* C21 witness: a request is answered 200 while its message is in the buffer,
\* its timer pending and no turn emitted, and a request that does not parse
\* is answered 400
C21_Witness ==
    \E r, b \in 1..Len(requests) :
        /\ requests[r].status = StatusOK
        /\ requests[r].ids # <<>>
        /\ \E u \in Users :
               /\ userMsgBuffer[u] # <<>>
               /\ userMsgBuffer[u][1].id = requests[r].ids[1]
               /\ PendingTimers(u) # {}
        /\ turns = <<>>
        /\ ~requests[b].body.valid
        /\ requests[b].status = StatusBadRequest

\* C29: the message of a turn made of one picture whose download succeeded
\* is posted as two parts, a text part and an image_url part.
C29_ImagePostedAsParts ==
    \A k \in 1..Len(posted) :
        posted[k].message = ImageContent(TRUE) =>
            /\ posted[k].payload.kind = "parts"
            /\ Len(posted[k].payload.content) = 2
            /\ posted[k].payload.content[1].type = "text"
            /\ posted[k].payload.content[2].type = "image_url"

\* an event the loop has nothing to do for
Ignored(e) == e.type # "message" \/ e.mtype \notin {"text", "image"}

\* the handler of request r goes past an event that is Ignored
SkipsEvent(r) ==
    /\ requests[r].pos <= Len(requests[r].events)
    /\ requests'[r].pos = requests[r].pos + 1
    /\ Ignored(requests[r].events[requests[r].pos])

\* C30: the round of the loop for an event that is not a message event, or
\* for a message that is neither text nor image, changes no buffer, stops no
\* timer and starts none.
C30_OtherEventsIgnored ==
    [][\A r \in 1..Len(requests) :
          SkipsEvent(r) => UNCHANGED <<userMsgBuffer, userMsgTimer, timers>>]_vars

\* C30 witness: a sticker of a user has been skipped; the user has a
\* buffered text and a pending timer
C30_Witness ==
    \E r \in 1..Len(requests), u \in Users :
        /\ requests[r].pos > 2
        /\ requests[r].ids = <<>>
        /\ requests[r].events[2].mtype = "sticker"
        /\ requests[r].events[2].user = u
        /\ userMsgBuffer[u] # <<>>
        /\ PendingTimers(u) # {}

\* ------------------------------------- more claims on the debouncer
\* the callback of timer t runs and finds the buffer of its user empty
FindsEmpty(t) ==
    /\ t.state = "fired"
    /\ t \notin timers'
    /\ userMsgBuffer[t.user] = <<>>

\* the message buffered when timer t was created has left in the turn of
\* the callback of another timer of the user
TakenByOther(t) ==
    \E i \in 1..Len(turns) :
        /\ turns[i].user = t.user
        /\ turns[i].replyToken # t.id
        /\ \E k \in 1..Len(turns[i].msgs) : turns[i].msgs[k].id = t.id

\* C25: a timer callback that finds the buffer of its user empty emits no
\* turn, writes no thread id and no cache entry and posts nothing; and while
\* a timer exists the buffer of its user is empty only if the callback of
\* another timer of the user has taken the message the timer was created
\* with.
C25_EmptyCallbackEmitsNothing ==
    /\ [][\A t \in timers :
              FindsEmpty(t) => UNCHANGED <<turns, orchVars, lineReplies, posted>>]_vars
    /\ [](\A t \in timers : userMsgBuffer[t.user] = <<>> => TakenByOther(t))

\* C25 witness: a user sent two messages and nothing after them; the turn of
\* the first timer holds both, and the second timer, which no message could
\* stop, is gone without a turn: its callback found the buffer empty
C25_Witness ==
    \E u \in Users :
        /\ Len(accepted[u]) = 2
        /\ fetching[u] = 0
        /\ Quiet(u)
        /\ Len(TurnsOf(u)) = 1
        /\ TurnsOf(u)[1].replyToken = accepted[u][1].id
        /\ TurnsOf(u)[1].msgs = accepted[u]

Processing(p) ==
    /\ procs[p].kind = "callback"
    /\ procs[p].pc \in {"qa", "th", "create", "store", "remote", "cache"}

\* C31: at most one turn of a user is processed at a time: no callback of a
\* user is inside the requests of a thread while an earlier callback of the
\* same user is still inside the requests of that thread, so the run sweep
\* of one turn never meets the run of another turn that is still polling
C31_OneTurnPerUser ==
    \A p, q \in 1..Len(procs) :
        (/\ p # q
         /\ Processing(p)
         /\ Processing(q)
         /\ procs[p].user = procs[q].user)
        => ~(/\ procs[p].pc = "remote"
             /\ procs[q].pc = "remote"
             /\ procs[p].threadId = procs[q].threadId)

\* C36: the reply of every emitted turn is addressed with the reply token of
\* the last message of that turn
C36_ReplyTokenOfLastMessage ==
    \A i \in 1..Len(turns) :
        turns[i].msgs # <<>>
        => turns[i].replyToken = turns[i].msgs[Len(turns[i].msgs)].id

\* a non-empty buffer of u is covered: a timer of u is pending, or has fired
\* and its callback has not yet taken the buffer
Covered(u) == userMsgBuffer[u] # <<>> => \E t \in timers : t.user = u

\* C37: in every reachable state a non-empty buffer is covered by a timer of
\* its user, and under fair scheduling a non-empty buffer becomes empty and
\* every buffered message ends up in a turn
C37_BufferEventuallyEmitted ==
    /\ [](\A u \in Users : Covered(u))
    /\ \A u \in Users : (userMsgBuffer[u] # <<>>) ~> (userMsgBuffer[u] = <<>>)
    /\ \A u \in Users : \A n \in 1..MaxMsgs :
           (Len(accepted[u]) = n) ~> (Len(EmittedMsgs(u)) >= n)

\* every message of a user who sent several has been emitted and no timer of
\* that user is left
C37_Witness ==
    \E u \in Users :
        /\ Len(accepted[u]) >= 2
        /\ userMsgBuffer[u] = <<>>
        /\ EmittedMsgs(u) = accepted[u]
        /\ Quiet(u)

\* C33: a turn is answered from the cache only if the turn of the same user
\* that returned just before it had the same text
C33_CacheOnlyAfterSameQuestion ==
    \A i \in 1..Len(turns) :
        (turns[i].fromCache /\ turns[i].prev.has)
        => turns[i].prev.message = turns[i].message

\* ---------------------------------------------------------------
\* claims on the answers of a run
\* ---------------------------------------------------------------

\* the polls up to poll k that submitted a batch
SubmissionsUpTo(k) == {m \in 1..k : polls[m].submitted}

\* the last of them
LastSubmission(k) == CHOOSE m \in SubmissionsUpTo(k) : \A o \in SubmissionsUpTo(k) : o <= m

\* C34: a signature counts as submitted only when the submission request was
\* delivered: a poll is skipped as already submitted only if the last
\* submission before it was delivered
C34_RecordedOnlyWhenDelivered ==
    \A k \in 1..Len(polls) :
        polls[k].skipped
        => /\ SubmissionsUpTo(k) # {}
           /\ polls[LastSubmission(k)].delivered

\* the states of a run that are final
TerminalStates == {"completed", "failed", "cancelled"}

\* C35: polling stops as soon as a poll observes a terminal state: no poll
\* follows a poll that read completed, failed or cancelled
C35_StopsAtTerminalState ==
    \A k \in 1..Len(polls) :
        polls[k].status \in TerminalStates => k = Len(polls)

\* the poll loop ended without a completed run: the run failed, was
\* cancelled, or the polls were used up
EndedWithoutCompletion ==
    /\ polls # <<>>
    /\ polls[Len(polls)].status \in {"failed", "cancelled", "in_progress", "requires_action"}

\* C32: when the loop ended without a completed run, the reply is not a
\* message that lies behind the turn's own message in the thread, and no
\* such message is cached under the turn's question
C32_ReplyOfThisRun ==
    (call.pc \in {"ret", "end"} /\ EndedWithoutCompletion)
    => /\ ~call.stale
       /\ ~(/\ call.stale
            /\ userLastQAMap[call.user].has
            /\ userLastQAMap[call.user].Question = call.message
            /\ userLastQAMap[call.user].Answer = call.reply)

\* C38: the call always ends, after at most PollBudget status polls, at most
\* SlotPollBudget polls of the slot summary branch and at most two run
\* creation requests, whatever the remote side answers
C38_CallTerminates ==
    /\ <>(call.pc = "end")
    /\ [](/\ call.i <= PollBudget
          /\ call.j <= SlotPollBudget
          /\ call.creates <= 2
          /\ Len(polls) <= PollBudget)

\* the call ended although every poll showed a run that required action and
\* presented tool calls not yet submitted
C38_Witness ==
    /\ call.pc = "end"
    /\ Len(polls) = PollBudget
    /\ \A k \in 1..Len(polls) : polls[k].status = "requires_action" /\ polls[k].submitted

====
